---- MODULE Spec2Model ----
(***************************************************************************)
(* Smart Scheduler (src/smart_scheduler_app.py): the appointment state     *)
(* machine of SmartSchedulerApp and its travel-time conflict engine.       *)
(*                                                                         *)
(* Representation                                                          *)
(*   - a time-slot string "H:MM" is the pair <<H, MM>>; generate_time_slots *)
(*     formats it and time_to_minutes parses it;                           *)
(*   - a date string ('%d-%b-%y') is a day number;                         *)
(*   - a Python dict keyed by cell is a function whose DOMAIN is the key   *)
(*     set; confirmed_appointments and the CSV file are sequences of rows  *)
(*     (insertion order is observable when the timetable is rebuilt);      *)
(*   - None is the empty tuple (falsy, as in the code's truth tests);      *)
(*   - a handler is an operator from the application state (a record of    *)
(*     the object's fields) to the state it leaves behind, together with   *)
(*     the branch it took and whether it ended in an uncaught exception.   *)
(***************************************************************************)
EXTENDS Integers, Sequences, FiniteSets, TLC

(***************************************************************************)
(* Bounds of the model                                                     *)
(***************************************************************************)
\* cells the user clicks: the MaxClickSlots columns from 08:30 on
MaxClickSlots == 2

\* rows of the distances.csv a project is loaded with
MaxDistanceRows == 2

\* customer locations handed to balance_clusters
MaxPoints == 9

\* rounds of the overlap pass and of the compactness pass (100 and 50 in the
\* code)
MaxOverlapIterations == 2

MaxCompactnessIterations == 2

\* passes of the proximity enforcement (100 in the code)
MaxProximityIterations == 2

\* customer locations of a whole run_clustering
MaxLocations == 6

\* territories the edit-regions dialog can reach by "Create New Region"
MaxRegions == 4

(***************************************************************************)
(* Project data (the files load_project_data reads)                        *)
(***************************************************************************)
None == <<>>

\* clustered_regions.csv, region 0: the depot
home_postcode == "D"

\* clustered_regions.csv: the postcodes of each region, sorted as
\* on_region_selected sorts them (upper case sorts before lower case)
ProjectRegions == [r \in {1} |-> <<"X", "y">>]

\* region_schedule.csv: the dates of each region, sorted
ProjectSchedule == [r \in {1} |-> <<1>>]

\* distances.csv rows (origin, destination, driving_time_minutes)
ProjectDistances ==
    << [origin |-> "D", destination |-> "X", driving_time_minutes |-> 45],
       [origin |-> "Z", destination |-> "D", driving_time_minutes |-> 20],
       [origin |-> "y", destination |-> "D", driving_time_minutes |-> 20] >>

\* values typed into the duration spinbox
Durations == {45, 60}

\* values of the timetable start / end spinboxes
StartHours == {8, 19}

EndHours == {9, 19}

\* the choices of the submit dialog: "cancel" (None), "plain" (False)
SubmitDialogs == {"cancel", "plain"}

VARIABLES
    distances_df,             \* None, or <<rows>>: the frame read from distances.csv
    clustered_regions_df,     \* region -> its postcodes, sorted
    schedule_df               \* region -> its dates, sorted

(***************************************************************************)
(* Helpers                                                                 *)
(***************************************************************************)
Range(f) == {f[i] : i \in DOMAIN f}

\* str.upper() on the postcodes of the project
upper(str) == IF str = "y" THEN "Y" ELSE str

\* time_to_minutes: "H:MM" -> minutes from midnight
time_to_minutes(time_str) == time_str[1] * 60 + time_str[2]

\* generate_time_slots: 30-minute slots from start_hour to end_hour
generate_time_slots(sh, eh) ==
    [i \in 1..((eh - sh) * 2) |->
        LET minutes == sh * 60 + 30 * (i - 1)
        IN  <<minutes \div 60, minutes % 60>>]

\* display_text_to_postcode: every branch returns the upper-cased text
\* (the project has no client_name column)
display_text_to_postcode(display_text) ==
    IF display_text = "" THEN display_text ELSE upper(display_text)

\* lines 1371-1376: the first matching row's time, at least 1 minute; 30
\* when there is no row or its time is not positive
MatchedTravelTime(match) ==
    IF match # <<>>
    THEN LET travel_time == match[1].driving_time_minutes
         IN  IF travel_time > 0
             THEN (IF travel_time > 1 THEN travel_time ELSE 1)
             ELSE 30
    ELSE 30

\* mutant of NormalisedTravelTime: only rows from o to d are matched
NormalisedTravelTime_oneway(o, d) ==
    IF o = d THEN 0
    ELSE MatchedTravelTime(
           SelectSeq(distances_df[1],
             LAMBDA row : row.origin = o /\ row.destination = d))

\* lines 1358-1376 for the normalised postcodes o and d
NormalisedTravelTime(o, d) ==
    IF o = d THEN 0
    ELSE MatchedTravelTime(
           SelectSeq(distances_df[1],
             LAMBDA row : \/ (row.origin = o /\ row.destination = d)
                          \/ (row.origin = d /\ row.destination = o)))

\* get_travel_time
get_travel_time(origin, destination) ==
    IF origin = "" \/ destination = "" \/ distances_df = None THEN 30
    ELSE NormalisedTravelTime(upper(display_text_to_postcode(origin)),
                              upper(display_text_to_postcode(destination)))

\* postcode in self.confirmed_appointments
InConfirmed(conf, postcode) == \E i \in DOMAIN conf : conf[i].postcode = postcode

\* self.confirmed_appointments[postcode]
ConfirmedOf(conf, postcode) ==
    conf[CHOOSE i \in DOMAIN conf : conf[i].postcode = postcode]

\* the duration the engine uses for an entry of the timetable: the stored
\* duration of a confirmed postcode, else the current spinbox value
DurationOf(s, postcode) ==
    IF InConfirmed(s.confirmed_appointments, postcode)
    THEN ConfirmedOf(s.confirmed_appointments, postcode).duration
    ELSE s.appointment_duration_var

\* del d[key]
DictDel(d, key) == [k \in (DOMAIN d) \ {key} |-> d[k]]

\* d[key] = value
DictSet(d, key, value) ==
    [k \in (DOMAIN d) \cup {key} |-> IF k = key THEN value ELSE d[k]]

(***************************************************************************)
(* ScheduleConflictEngine: recalculate_travel_times, check_travel_conflicts *)
(***************************************************************************)
Segment(date_str, seg_start, seg_end, minutes, to_home, from_home) ==
    <<date_str, seg_start, seg_end,
      [minutes |-> minutes, to_home |-> to_home, from_home |-> from_home]>>

\* self.time_slots.index(t) raises ValueError when t is not a current slot
InTimeSlots(s, t) == \E i \in DOMAIN s.time_slots : s.time_slots[i] = t

\* the slots of time_slots that hold an appointment on the date, in order
SlotsOnDate(s, date_str) ==
    SelectSeq(s.time_slots, LAMBDA t : <<date_str, t>> \in DOMAIN s.appointments)

\* the (cell key, postcode) entries of the slots onDate
EntriesAt(s, date_str, onDate) ==
    [i \in DOMAIN onDate |->
        <<<<date_str, onDate[i]>>, s.appointments[<<date_str, onDate[i]>>]>>]

\* mutant of SortedDateAppointments: the day is ordered latest slot first
SortedDateAppointments_reversed(s, date_str) ==
    EntriesAt(s, date_str,
        [i \in DOMAIN SlotsOnDate(s, date_str) |->
            SlotsOnDate(s, date_str)[Len(SlotsOnDate(s, date_str)) + 1 - i]])

\* lines 1240-1245: the date's entries (cell key, postcode) sorted by the
\* index of their slot in time_slots; only evaluated when every key has an
\* index
SortedDateAppointments(s, date_str) ==
    EntriesAt(s, date_str, SlotsOnDate(s, date_str))

\* lines 1281-1290: travel starts when the current appointment ends
BetweenSegment(date_str, current_end_minutes, travel_minutes) ==
    Segment(date_str, current_end_minutes, current_end_minutes + travel_minutes,
            travel_minutes, FALSE, FALSE)

\* lines 1265-1290: the BETWEEN segments of a sorted day, in order
BetweenSegments(s, date_str, date_appointments) ==
    [i \in 1..(Len(date_appointments) - 1) |->
        BetweenSegment(date_str,
            time_to_minutes(date_appointments[i][1][2])
                + DurationOf(s, date_appointments[i][2]),
            get_travel_time(date_appointments[i][2], date_appointments[i + 1][2]))]

\* lines 1251-1319 once the travel times of the first and the last
\* appointment are known
DaySegments(s, s0, date_str, date_appointments, first_time_minutes, travel_to_first, last_end_minutes, travel_home_minutes) ==
    LET travel_start == first_time_minutes - travel_to_first
        is_exceeding_start == travel_start < s.start_hour * 60
        from_home ==
            IF home_postcode # ""
            THEN <<Segment(date_str, travel_start, first_time_minutes,
                           travel_to_first, FALSE, TRUE)>>
            ELSE <<>>
        travel_home_end == last_end_minutes + travel_home_minutes
        is_exceeding_end == travel_home_end > s.end_hour * 60
    IN  [s0 EXCEPT
           !.travel_segments =
               s0.travel_segments \o from_home
                 \o BetweenSegments(s, date_str, date_appointments)
                 \o <<Segment(date_str, last_end_minutes, travel_home_end,
                              travel_home_minutes, TRUE, FALSE)>>,
           !.conflicting_segments =
               s0.conflicting_segments
                 \cup (IF home_postcode # "" /\ is_exceeding_start
                       THEN {<<date_str, travel_start, first_time_minutes>>}
                       ELSE {})
                 \cup (IF is_exceeding_end
                       THEN {<<date_str, last_end_minutes, travel_home_end>>}
                       ELSE {})]

\* the last appointment of a sorted day
LastOf(date_appointments) == date_appointments[Len(date_appointments)]

\* lines 1247-1319: the segments and window flags appended for a sorted day
\* (s0: the state once the date's old segments and flags are dropped)
AppendDaySegments(s, s0, date_str, date_appointments) ==
    DaySegments(s, s0, date_str, date_appointments,
        time_to_minutes(date_appointments[1][1][2]),
        IF home_postcode # ""
        THEN get_travel_time(home_postcode, date_appointments[1][2])
        ELSE 0,
        time_to_minutes(LastOf(date_appointments)[1][2])
            + DurationOf(s, LastOf(date_appointments)[2]),
        IF home_postcode # ""
        THEN get_travel_time(LastOf(date_appointments)[2], home_postcode)
        ELSE 30)

\* lines 1233-1237: the date's old segments and flags are dropped
DropDate(s, date_str) ==
    [s EXCEPT
       !.travel_segments =
           SelectSeq(s.travel_segments, LAMBDA seg : seg[1] # date_str),
       !.conflicting_segments =
           {seg \in s.conflicting_segments : seg[1] # date_str}]

recalculate_travel_times(s, date_str) ==
    IF \A k \in DOMAIN s.appointments : k[1] # date_str
    THEN DropDate(s, date_str)
    ELSE IF \E k \in DOMAIN s.appointments : k[1] = date_str /\ ~InTimeSlots(s, k[2])
    THEN [DropDate(s, date_str) EXCEPT !.exc = TRUE]   \* ValueError out of the sort key
    ELSE AppendDaySegments(s, DropDate(s, date_str), date_str,
                           SortedDateAppointments(s, date_str))

\* the (start, end) ranges check_travel_conflicts builds for a date
ApptRanges(s, date_str) ==
    {<<time_to_minutes(k[2]),
       time_to_minutes(k[2]) + DurationOf(s, s.appointments[k])>> :
         k \in {c \in DOMAIN s.appointments : c[1] = date_str}}

\* mutant of TravelConflicts: a segment that only touches an appointment's
\* start or end counts as overlapping it
TravelConflicts_touching(s, date_str) ==
    {<<seg, r>> \in Range(s.travel_segments) \X ApptRanges(s, date_str) :
        seg[1] = date_str /\ seg[2] <= r[2] /\ seg[3] >= r[1]}

\* the conflicts check_travel_conflicts returns: (segment, appointment range)
TravelConflicts(s, date_str) ==
    {<<seg, r>> \in Range(s.travel_segments) \X ApptRanges(s, date_str) :
        seg[1] = date_str /\ seg[2] < r[2] /\ seg[3] > r[1]}

\* lines 1200 and 1227: the flag set is reset, then refilled with the
\* segments of the conflicts found
Flagged(s, conflicts) ==
    [s EXCEPT !.conflicting_segments =
        {<<c[1][1], c[1][2], c[1][3]>> : c \in conflicts}]

\* check_travel_conflicts: the state it leaves; the list it returns is
\* TravelConflicts
check_travel_conflicts(s, date_str) == Flagged(s, TravelConflicts(s, date_str))

(***************************************************************************)
(* update_timetable: the cells drawn, each bound to on_cell_click          *)
(***************************************************************************)
IsCovered(s, date_str, col_idx) ==
    \E check_cell_key \in DOMAIN s.appointments :
        /\ check_cell_key[1] = date_str
        /\ time_to_minutes(s.time_slots[col_idx])
             < time_to_minutes(check_cell_key[2])
                 + DurationOf(s, s.appointments[check_cell_key])
        /\ \E check_col \in 1..(col_idx - 1) :
              s.time_slots[check_col] = check_cell_key[2]

update_timetable(s) ==
    [s EXCEPT !.timetable_cells =
        {<<s.selected_dates[r], s.time_slots[c]>> :
            <<r, c>> \in {rc \in (DOMAIN s.selected_dates) \X (DOMAIN s.time_slots) :
                            ~IsCovered(s, s.selected_dates[rc[1]], rc[2])}}]

(***************************************************************************)
(* Handlers.  Each returns the state it leaves; .branch names the path     *)
(* taken and .exc tells that it ended in an uncaught exception.            *)
(***************************************************************************)
Took(s, branch) == [s EXCEPT !.branch = branch]

\* the tail of a handler after a recalculation: an exception skips the redraw
Redraw(s, branch) ==
    IF s.exc THEN Took(s, branch) ELSE Took(update_timetable(s), branch)

\* the dict without the postcode / the file without the postcode's rows
WithoutPostcodes(rows, postcodes) ==
    SelectSeq(rows, LAMBDA row : row.postcode \notin postcodes)

\* lines 1168-1190: after the recalculation of the staged cell's date
StageChecked(s, cell_key, postcode) ==
    IF s.exc THEN Took(s, "staged")
    ELSE Took(update_timetable(
                [check_travel_conflicts(s, cell_key[1]) EXCEPT
                    !.pending_appointment =
                        <<cell_key[1], cell_key[2], postcode,
                          s.appointment_duration_var>>]),
              "staged")

\* lines 1164-1190: stage the selected postcode in the clicked cell
StageAppointment(s, cell_key, postcode) ==
    StageChecked(
        recalculate_travel_times(
            [s EXCEPT !.appointments = DictSet(s.appointments, cell_key, postcode)],
            cell_key[1]),
        cell_key, postcode)

\* lines 1147-1162: the selected postcode and the duplicate validation
SelectAndStage(s, cell_key) ==
    LET selected_index == s.postcode_combo
    IN  IF selected_index < 0 \/ selected_index >= Len(s.region_postcodes)
        THEN Took(s, "no_postcode")
        ELSE LET postcode == s.region_postcodes[selected_index + 1]
             IN  IF InConfirmed(s.confirmed_appointments, postcode)
                 THEN Took(s, "duplicate")
                 ELSE StageAppointment(s, cell_key, postcode)

\* lines 1147-1190 once a replaced pending appointment has been dropped
StageAfterReplace(s, cell_key) ==
    IF s.exc THEN Took(s, "replace_pending")
    ELSE SelectAndStage(update_timetable(s), cell_key)

\* mutant of RemoveConfirmed: the row of the file is left in place
RemoveConfirmed_memory(s, cell_key, postcode) ==
    Redraw(recalculate_travel_times(
             [s EXCEPT
                !.confirmed_appointments =
                    WithoutPostcodes(s.confirmed_appointments, {postcode}),
                !.appointments = DictDel(s.appointments, cell_key)],
             cell_key[1]),
           "remove_confirmed")

\* lines 1100-1115: the confirmed appointment is removed from the dict, the
\* file and the timetable
RemoveConfirmed(s, cell_key, postcode) ==
    Redraw(recalculate_travel_times(
             [s EXCEPT
                !.confirmed_appointments =
                    WithoutPostcodes(s.confirmed_appointments, {postcode}),
                !.csv = WithoutPostcodes(s.csv, {postcode}),
                !.appointments = DictDel(s.appointments, cell_key)],
             cell_key[1]),
           "remove_confirmed")

\* mutant of ConfirmedClick: the removal does not wait for the dialog's answer
ConfirmedClick_unasked(s, cell_key, postcode, answer) ==
    RemoveConfirmed(s, cell_key, postcode)

\* lines 1097-1116: a click on a confirmed appointment asks before removing
ConfirmedClick(s, cell_key, postcode, answer) ==
    IF answer THEN RemoveConfirmed(s, cell_key, postcode)
    ELSE Took(s, "keep_confirmed")

on_cell_click(s, date_str, time_slot, answer) ==
    LET cell_key == <<date_str, time_slot>>
    IN  IF cell_key \in DOMAIN s.appointments
        THEN
          LET postcode == s.appointments[cell_key]
          IN  IF InConfirmed(s.confirmed_appointments, postcode)
              THEN ConfirmedClick(s, cell_key, postcode, answer)
              ELSE Redraw(recalculate_travel_times(
                            [s EXCEPT
                               !.appointments = DictDel(s.appointments, cell_key),
                               !.pending_appointment = None],
                            date_str),
                          "remove_pending")
        ELSE
          IF s.pending_appointment # None
          THEN
            IF answer
            THEN
              LET old_key == <<s.pending_appointment[1], s.pending_appointment[2]>>
              IN  StageAfterReplace(
                    recalculate_travel_times(
                      [s EXCEPT
                         !.appointments =
                             IF old_key \in DOMAIN s.appointments
                             THEN DictDel(s.appointments, old_key)
                             ELSE s.appointments,
                         !.pending_appointment = None],
                      s.pending_appointment[1]),
                    cell_key)
            ELSE Took(s, "keep_pending")
          ELSE SelectAndStage(s, cell_key)

\* mutant of IsDuplicate: the duplicate check never fires
IsDuplicate_never(s, actual_postcode) == FALSE

\* lines 1757-1763: the location already has a confirmed appointment
IsDuplicate(s, actual_postcode) ==
    InConfirmed(s.confirmed_appointments, actual_postcode)

\* dialog: "cancel" (None), "outlook" (True) or "plain" (False);
\* outlook_success: the result of create_outlook_appointment
submit_appointment(s, dialog, outlook_success) ==
    IF s.pending_appointment = None THEN Took(s, "no_pending")
    ELSE
      LET date == s.pending_appointment[1]
          time == s.pending_appointment[2]
          postcode == s.pending_appointment[3]
          duration == s.pending_appointment[4]
          actual_postcode == display_text_to_postcode(postcode)
          row == [postcode |-> actual_postcode, date |-> date, time |-> time,
                  duration |-> duration,
                  in_outlook |-> IF dialog = "outlook" THEN outlook_success ELSE FALSE]
      IN  IF IsDuplicate(s, actual_postcode)
          THEN Took(s, "duplicate")
          ELSE IF dialog = "cancel" THEN Took(s, "cancelled")
          ELSE Took(update_timetable(
                      [s EXCEPT
                         !.confirmed_appointments = Append(s.confirmed_appointments, row),
                         !.csv = Append(s.csv, row),
                         !.pending_appointment = None]),
                    "confirmed")

clear_schedule(s, answer) ==
    LET region_postcodes_set == Range(s.region_postcodes)
        region_appointments ==
            {s.confirmed_appointments[i].postcode : i \in
                {j \in DOMAIN s.confirmed_appointments :
                    s.confirmed_appointments[j].postcode \in region_postcodes_set}}
        region_pending ==
            /\ s.pending_appointment # None
            /\ s.pending_appointment[3] \in region_postcodes_set
        region_dates == Range(s.selected_dates)
        kept == {k \in DOMAIN s.appointments :
                    s.appointments[k] \notin region_postcodes_set}
    IN  IF s.selected_region = 0 THEN Took(s, "no_region")
        ELSE IF region_appointments = {} /\ ~region_pending THEN Took(s, "empty")
        ELSE IF ~answer THEN Took(s, "declined")
        ELSE Took(update_timetable(
               [s EXCEPT
                  !.appointments = [k \in kept |-> s.appointments[k]],
                  !.confirmed_appointments =
                      WithoutPostcodes(s.confirmed_appointments, region_appointments),
                  !.pending_appointment =
                      IF region_pending THEN None ELSE s.pending_appointment,
                  !.travel_segments =
                      SelectSeq(s.travel_segments,
                                LAMBDA seg : seg[1] \notin region_dates),
                  !.conflicting_segments = {},
                  !.csv = WithoutPostcodes(s.csv, region_postcodes_set)]),
               "cleared")

\* line 1682: the in-memory row of the postcode is marked as in Outlook
MarkedInOutlook(conf, postcode) ==
    [i \in DOMAIN conf |->
        IF conf[i].postcode = postcode THEN [conf[i] EXCEPT !.in_outlook = TRUE]
        ELSE conf[i]]

\* an entry of the list failed: the postcode (error FALSE) or the postcode
\* followed by the exception's text (error TRUE)
FailedEntry(postcode, error) == [text |-> postcode, error |-> error]

\* mutant of SyncItem: an exception of the calendar call is not recorded
SyncItem_unrecorded(acc, postcode, outcome) ==
    IF outcome = "created"
    THEN [acc EXCEPT !.attempted = Append(@, postcode),
                     !.created_count = @ + 1,
                     !.confirmed_appointments = MarkedInOutlook(@, postcode)]
    ELSE IF outcome = "false"
    THEN [acc EXCEPT !.attempted = Append(@, postcode),
                     !.failed = Append(@, FailedEntry(postcode, FALSE))]
    ELSE [acc EXCEPT !.attempted = Append(@, postcode)]

\* lines 1671-1687: one appointment of to_sync; outcome is what the calendar
\* call does: "created" (True), "false" (False) or "raised" (an exception);
\* attempted lists the appointments the loop has taken up
SyncItem(acc, postcode, outcome) ==
    IF outcome = "created"
    THEN [acc EXCEPT !.attempted = Append(@, postcode),
                     !.created_count = @ + 1,
                     !.confirmed_appointments = MarkedInOutlook(@, postcode)]
    ELSE IF outcome = "false"
    THEN [acc EXCEPT !.attempted = Append(@, postcode),
                     !.failed = Append(@, FailedEntry(postcode, FALSE))]
    ELSE [acc EXCEPT !.attempted = Append(@, postcode),
                     !.failed = Append(@, FailedEntry(postcode, TRUE))]

\* lines 1671-1687: the loop over to_sync
RECURSIVE SyncFrom(_, _, _)
SyncFrom(acc, to_sync, outcomes) ==
    IF to_sync = <<>> THEN acc
    ELSE SyncFrom(SyncItem(acc, Head(to_sync).postcode,
                           outcomes[Head(to_sync).postcode]),
                  Tail(to_sync), outcomes)

\* lines 1689-1693: the rows of the file whose postcode is in to_sync and is
\* not an element of failed get in_outlook = True
SyncedCsv(rows, to_sync, failed) ==
    [i \in DOMAIN rows |->
        IF /\ \E j \in DOMAIN to_sync : to_sync[j].postcode = rows[i].postcode
           /\ FailedEntry(rows[i].postcode, FALSE) \notin Range(failed)
        THEN [rows[i] EXCEPT !.in_outlook = TRUE]
        ELSE rows[i]]

\* lines 1660-1693 once Outlook is connected: the loop, then the file
Synced(s, to_sync, acc) ==
    [st |-> Took([s EXCEPT
                    !.confirmed_appointments = acc.confirmed_appointments,
                    !.csv = SyncedCsv(s.csv, to_sync, acc.failed)],
                 "synced"),
     created_count |-> acc.created_count,
     failed |-> acc.failed,
     attempted |-> acc.attempted]

\* a return of sync_to_outlook before its loop
NotSynced(s, branch) ==
    [st |-> Took(s, branch), created_count |-> 0, failed |-> <<>>,
     attempted |-> <<>>]

\* the confirmed appointments that are not in Outlook, in dict order
ToSync(s) == SelectSeq(s.confirmed_appointments, LAMBDA row : ~row.in_outlook)

\* response: the answer to the dialog; connected: Outlook could be reached;
\* outcomes: what the calendar call does for each postcode
sync_to_outlook(s, response, connected, outcomes) ==
    IF s.confirmed_appointments = <<>> THEN NotSynced(s, "no_appointments")
    ELSE IF ToSync(s) = <<>> THEN NotSynced(s, "already_synced")
    ELSE IF ~response THEN NotSynced(s, "declined")
    ELSE IF ~connected THEN NotSynced(s, "outlook_error")
    ELSE Synced(s, ToSync(s),
                SyncFrom([confirmed_appointments |-> s.confirmed_appointments,
                          created_count |-> 0, failed |-> <<>>,
                          attempted |-> <<>>],
                         ToSync(s), outcomes))

\* lines 680-683: recalculate each date of the set in its iteration order;
\* the first ValueError ends the loop
RECURSIVE RecalculateDates(_, _)
RecalculateDates(s, dates) ==
    IF dates = <<>> \/ s.exc THEN s
    ELSE RecalculateDates(recalculate_travel_times(s, Head(dates)), Tail(dates))

\* the (date, time) keys written by lines 669-678, confirmed rows in dict
\* order and then the pending appointment; a later write to a key wins
RebuiltAppointments(s) ==
    LET conf == s.confirmed_appointments
        confKeys == {<<conf[i].date, conf[i].time>> : i \in DOMAIN conf}
        lastAt(k) == CHOOSE i \in DOMAIN conf :
                        /\ <<conf[i].date, conf[i].time>> = k
                        /\ \A j \in DOMAIN conf :
                              <<conf[j].date, conf[j].time>> = k => j <= i
        pend == s.pending_appointment
        pendKeys == IF pend # None THEN {<<pend[1], pend[2]>>} ELSE {}
    IN  [k \in confKeys \cup pendKeys |->
            IF k \in pendKeys THEN pend[3] ELSE conf[lastAt(k)].postcode]

\* lines 680-683 on the rebuilt timetable
RecalculateAll(s, order) ==
    RecalculateDates(s,
        SelectSeq(order, LAMBDA d : \E k \in DOMAIN s.appointments : k[1] = d))

\* lines 685-688: the redraw, or the swallowed ValueError
RecalculatedAll(s) ==
    IF s.exc
    THEN Took([s EXCEPT !.exc = FALSE], "value_error")
    ELSE Took(update_timetable(s), "updated")

\* order: the iteration order of the set dates_with_appointments
on_time_config_changed(s, new_start, new_end, order) ==
    IF new_start >= new_end THEN Took(s, "invalid")
    ELSE RecalculatedAll(
           RecalculateAll(
             [s EXCEPT
                !.start_hour = new_start,
                !.end_hour = new_end,
                !.time_slots = generate_time_slots(new_start, new_end),
                !.travel_segments = <<>>,
                !.appointments = RebuiltAppointments(s)],
             order))

on_region_selected(s, region_id) ==
    Took(update_timetable(
           [s EXCEPT
              !.selected_region = region_id,
              !.selected_dates = schedule_df[region_id],
              !.region_postcodes = clustered_regions_df[region_id],
              !.postcode_combo = IF clustered_regions_df[region_id] # <<>> THEN 0
                                 ELSE s.postcode_combo]),
         "selected")

\* the combobox selection; on_postcode_selected only refreshes displays
on_postcode_selected(s, selected_index) ==
    Took([s EXCEPT !.postcode_combo = selected_index], "selected")

\* self.postcode_var.get(): the text of the selected combobox entry
postcode_var(s) ==
    IF s.postcode_combo >= 0 /\ s.postcode_combo < Len(s.region_postcodes)
    THEN s.region_postcodes[s.postcode_combo + 1]
    ELSE ""

(***************************************************************************)
(* SlotAvailabilityFinder: get_available_slots                             *)
(***************************************************************************)
\* line 1909, other_cell_key[1] in self.appointments: a slot string tested
\* against a dict whose keys are (date, time) tuples is never a key
SlotStringIsKey(s, other_slot) == FALSE

\* lines 1907-1914
OtherDuration(s, date_str, other_slot) ==
    LET conf == s.confirmed_appointments
        hits == SelectSeq(conf, LAMBDA row : row.date = date_str /\ row.time = other_slot)
    IN  IF SlotStringIsKey(s, other_slot) /\ hits # <<>>
        THEN hits[1].duration
        ELSE 30

\* lines 1899-1921
HasConflict(s, date_str, start_minutes, end_minutes) ==
    \E other_cell_key \in DOMAIN s.appointments :
        /\ other_cell_key[1] = date_str
        /\ end_minutes > time_to_minutes(other_cell_key[2])
        /\ start_minutes < time_to_minutes(other_cell_key[2])
                             + OtherDuration(s, date_str, other_cell_key[2])
        /\ InTimeSlots(s, other_cell_key[2])

\* the (date, slot) pairs in the order of the two loops
ProbeOrder(s) ==
    [n \in 1..(Len(s.selected_dates) * Len(s.time_slots)) |->
        <<s.selected_dates[((n - 1) \div Len(s.time_slots)) + 1],
          s.time_slots[((n - 1) % Len(s.time_slots)) + 1]>>]

\* mutant of Retracted: the temporary appointment stays in the timetable
Retracted_kept(s, cell_key) == s

\* line 1938: the temporary appointment is removed again
Retracted(s, cell_key) ==
    [s EXCEPT !.appointments = DictDel(s.appointments, cell_key)]

\* lines 1935-1942 after the speculative recalculation: the conflict check,
\* the retraction, and the slot kept when no conflict was returned
ProbeJudged(s, conflicts, cell_key, acc) ==
    [st |-> Retracted(Flagged(s, conflicts), cell_key),
     available_slots |-> IF conflicts = {} THEN Append(acc, cell_key) ELSE acc]

\* lines 1933-1942: an exception of the recalculation ends the call
ProbeChecked(s, cell_key, acc) ==
    IF s.exc THEN [st |-> s, available_slots |-> acc]
    ELSE ProbeJudged(s, TravelConflicts(s, cell_key[1]), cell_key, acc)

\* lines 1889-1942: one (date, slot) pair of the loops
ProbeCell(s, cell_key, postcode, acc) ==
    LET start_minutes == time_to_minutes(cell_key[2])
        end_minutes == start_minutes + s.appointment_duration_var
        end_hour == end_minutes \div 60
    IN  IF end_hour > s.end_hour THEN [st |-> s, available_slots |-> acc]
        ELSE IF HasConflict(s, cell_key[1], start_minutes, end_minutes)
        THEN [st |-> s, available_slots |-> acc]
        ELSE IF cell_key \in DOMAIN s.appointments
        THEN [st |-> s, available_slots |-> acc]
        ELSE ProbeChecked(
               recalculate_travel_times(
                 [s EXCEPT !.appointments = DictSet(s.appointments, cell_key, postcode)],
                 cell_key[1]),
               cell_key, acc)

\* the loops from pair n on; r carries the state and available_slots so far
RECURSIVE ProbeFrom(_, _, _, _)
ProbeFrom(r, pairs, n, postcode) ==
    IF n > Len(pairs) \/ r.st.exc THEN r
    ELSE ProbeFrom(ProbeCell(r.st, pairs[n], postcode, r.available_slots),
                   pairs, n + 1, postcode)

\* the state and the list get_available_slots ends with
Probed(r) == [st |-> Took(r.st, "probed"), available_slots |-> r.available_slots]

get_available_slots(s) ==
    LET postcode == postcode_var(s)
    IN  IF postcode = "" \/ s.selected_dates = <<>>
        THEN [st |-> Took(s, "nothing"), available_slots |-> <<>>]
        ELSE Probed(ProbeFrom([st |-> s, available_slots |-> <<>>],
                              ProbeOrder(s), 1, postcode))

(***************************************************************************)
(* State of SmartSchedulerApp                                              *)
(***************************************************************************)
VARIABLES
    appointments,             \* {(date, time_slot): postcode}
    pending_appointment,      \* None or (date, time, postcode, duration)
    confirmed_appointments,   \* rows postcode -> (date, time, duration, in_outlook)
    travel_segments,          \* list of (date, start, end, info)
    conflicting_segments,     \* set of (date, start, end)
    start_hour,
    end_hour,
    time_slots,
    csv,                      \* the rows of confirmed_appointments.csv
    appointment_duration_var, \* the duration spinbox
    selected_region,
    selected_dates,
    region_postcodes,
    postcode_combo,           \* postcode_combo.current()
    timetable_cells           \* the cells drawn by the last update_timetable

\* TSPClusteringApp.balance_clusters: its locals and its position
VARIABLES
    labels,                   \* customer index -> cluster id
    n_clusters,
    pass,                     \* "none", "proximity", "min_size", "overlap",
                              \* "compact", "returned", "stored"
    cluster_id,               \* the index of the pass's for loop over clusters
    iteration,                \* prox_iter / overlap_iter / compact_iter
    improved,
    violations_fixed,
    hulls_overlap,            \* check_convex_hulls_overlap(coords, labels, n_clusters)
    warned                    \* "Some overlaps may remain" was logged

balance_vars ==
    <<labels, n_clusters, pass, cluster_id, iteration, improved,
      violations_fixed, hulls_overlap, warned>>

\* TSPClusteringApp: the inputs of run_clustering and what it stores
VARIABLES
    depot_postcode_var,       \* the home base: its place among the sorted postcodes
    service_time_var,         \* minutes per customer (hours in the entry)
    work_hours_var,           \* minutes per day (hours in the spinbox)
    clustered_results,        \* rows (postcode, region); none before a run
    driving_time_matrix,      \* None before a run
    depot_postcode_idx,
    minimum_days              \* summary_results['minimum_days'], None before a save

clustering_vars ==
    <<depot_postcode_var, service_time_var, work_hours_var, clustered_results,
      driving_time_matrix, depot_postcode_idx, minimum_days>>

(***************************************************************************)
(* display_preferences: the module's globals and its functions             *)
(***************************************************************************)
\* callbacks one process can have registered
MaxCallbacks == 2

VARIABLES
    display_preference,       \* _display_preference: None, or <<the boolean>>
    preference_file,          \* _preference_file: "" while None, else its path
    preference_callbacks,     \* _preference_callbacks, in registration order
    preference_json,          \* the text of display_preferences.json on disk
    invoked,                  \* the calls callback(show_names) of the last set
    printed                   \* the warnings the last set_show_names printed

preference_vars ==
    <<display_preference, preference_file, preference_callbacks,
      preference_json, invoked, printed>>

\* the module's globals as a record
prefs ==
    [display_preference |-> display_preference,
     preference_file |-> preference_file,
     preference_callbacks |-> preference_callbacks,
     preference_json |-> preference_json,
     invoked |-> invoked,
     printed |-> printed]

CommitPreferences(m) ==
    /\ display_preference' = m.display_preference
    /\ preference_file' = m.preference_file
    /\ preference_callbacks' = m.preference_callbacks
    /\ preference_json' = m.preference_json
    /\ invoked' = m.invoked
    /\ printed' = m.printed

\* os.path.exists(_preference_file) is false
NoFile == "<no file>"

\* json.dump({'show_names': show_names}, f)
json_dump(show_names) ==
    IF show_names THEN "{\"show_names\": true}" ELSE "{\"show_names\": false}"

\* the texts display_preferences.json can hold: what set_show_names writes,
\* an object without the key, and a file json.load cannot parse
PreferenceTexts == {json_dump(TRUE), json_dump(FALSE), "{}", ""}

\* lines 32-43: json.load(f).get('show_names', False); False when the file
\* is missing or cannot be parsed
loaded_preference(text) == text = json_dump(TRUE)

\* lines 11-14: the globals after the import
Imported(text) ==
    [display_preference |-> None,
     preference_file |-> "",
     preference_callbacks |-> <<>>,
     preference_json |-> text,
     invoked |-> <<>>,
     printed |-> <<>>]

\* initialize(config_dir), lines 17-45
initialize(m) ==
    [m EXCEPT !.preference_file = "display_preferences.json",
              !.display_preference = <<loaded_preference(m.preference_json)>>]

\* get_show_names, lines 48-54: the globals it leaves and what it returns
get_show_names(m) ==
    LET st == IF m.display_preference = None THEN initialize(m) ELSE m
    IN  [st |-> st, value |-> st.display_preference[1]]

\* lines 73-78 run as if the first exception left the loop
RECURSIVE Notified_aborting(_, _, _, _, _)
Notified_aborting(m, callbacks, i, show_names, outcomes) ==
    IF i > Len(callbacks)
    THEN m
    ELSE LET called == [m EXCEPT !.invoked = Append(@, <<callbacks[i], show_names>>)]
         IN  IF outcomes[i] = "raises"
             THEN [called EXCEPT !.printed = Append(@, "Callback error")]
             ELSE Notified_aborting(called, callbacks, i + 1, show_names, outcomes)

\* lines 73-78: the loop over _preference_callbacks from its i-th entry;
\* outcomes[i] tells whether the i-th callback returns or raises
RECURSIVE Notified(_, _, _, _, _)
Notified(m, callbacks, i, show_names, outcomes) ==
    IF i > Len(callbacks)
    THEN m
    ELSE LET called == [m EXCEPT !.invoked = Append(@, <<callbacks[i], show_names>>)]
         IN  Notified(IF outcomes[i] = "raises"
                      THEN [called EXCEPT !.printed = Append(@, "Callback error")]
                      ELSE called,
                      callbacks, i + 1, show_names, outcomes)

\* set_show_names(show_names), lines 57-78; writable tells whether
\* open(_preference_file, 'w') succeeds
set_show_names(m, show_names, writable, outcomes) ==
    LET set == [m EXCEPT !.display_preference = <<show_names>>,
                         !.invoked = <<>>,
                         !.printed = <<>>]
        saved == IF set.preference_file = ""
                 THEN set
                 ELSE IF writable
                      THEN [set EXCEPT !.preference_json = json_dump(show_names)]
                      ELSE [set EXCEPT !.printed =
                                Append(@, "Could not save display preference")]
    IN  Notified(saved, saved.preference_callbacks, 1, show_names, outcomes)

\* register_callback(callback), lines 81-87
register_callback(m, callback) ==
    [m EXCEPT !.preference_callbacks = Append(@, callback)]

\* list.remove: the first occurrence leaves the list
RECURSIVE remove(_, _)
remove(list, x) ==
    IF list = <<>> THEN <<>>
    ELSE IF Head(list) = x THEN Tail(list)
    ELSE <<Head(list)>> \o remove(Tail(list), x)

\* unregister_callback(callback), lines 90-93
unregister_callback(m, callback) ==
    IF callback \in Range(m.preference_callbacks)
    THEN [m EXCEPT !.preference_callbacks = remove(@, callback)]
    ELSE m

\* lines 113-114 of SmartSchedulerApp.__init__ in a project without
\* display_preferences.json: init_display_prefs, then register_callback
PreferencesInitialized ==
    LET m == register_callback(initialize(Imported(NoFile)),
                               "on_display_preference_changed")
    IN  /\ display_preference = m.display_preference
        /\ preference_file = m.preference_file
        /\ preference_callbacks = m.preference_callbacks
        /\ preference_json = m.preference_json
        /\ invoked = m.invoked
        /\ printed = m.printed

(***************************************************************************)
(* CalendarOrganizerApp: its fields, region_schedule.csv and Outlook       *)
(***************************************************************************)
\* the dates of the calendar that can be clicked
MaxCalendarDates == 2

CalendarDates == 1..MaxCalendarDates

\* load_regions, lines 265-357: the regions of clustered_regions.csv and
\* the minimum_days region_summary.csv gives them
CalendarRegions == <<1, 2>>

region_data == [region_num \in {1, 2} |->
                   [minimum_days |-> IF region_num = 1 THEN 2 ELSE 0]]

VARIABLES
    region_assignments,       \* {date_str: region_number}
    calendar_selected_region, \* the organizer's selected_region; 0 while None
    schedule_saved,
    region_schedule_csv,      \* None, or the rows (date, region) of the file
    outlook_created           \* the appointments the last export created

calendar_vars ==
    <<region_assignments, calendar_selected_region, schedule_saved,
      region_schedule_csv, outlook_created>>

\* the organizer's fields as a record
calendar ==
    [region_assignments |-> region_assignments,
     selected_region |-> calendar_selected_region,
     schedule_saved |-> schedule_saved,
     region_schedule_csv |-> region_schedule_csv,
     outlook_created |-> outlook_created]

CommitCalendar(c) ==
    /\ region_assignments' = c.region_assignments
    /\ calendar_selected_region' = c.selected_region
    /\ schedule_saved' = c.schedule_saved
    /\ region_schedule_csv' = c.region_schedule_csv
    /\ outlook_created' = c.outlook_created

\* an empty dict
NoAssignments == [date_str \in {} |-> 0]

\* lines 620-628: one row per item of sorted(region_assignments.items())
RECURSIVE to_csv(_)
to_csv(assignments) ==
    IF DOMAIN assignments = {}
    THEN <<>>
    ELSE LET first == CHOOSE d \in DOMAIN assignments :
                          \A e \in DOMAIN assignments : d <= e
         IN  <<<<first, assignments[first]>>>> \o
             to_csv([d \in DOMAIN assignments \ {first} |-> assignments[d]])

\* lines 654-658: region_assignments[row['date']] = int(row['region']) for
\* each row, a later row of a date replacing an earlier one
read_csv(rows) ==
    [date_str \in {rows[i][1] : i \in DOMAIN rows} |->
        LET last == CHOOSE i \in DOMAIN rows :
                        /\ rows[i][1] = date_str
                        /\ \A j \in DOMAIN rows : rows[j][1] = date_str => j <= i
        IN  rows[last][2]]

\* __init__, lines 66-73, for a project whose region_schedule.csv holds rows
CalendarConstructed(rows) ==
    [region_assignments |-> NoAssignments,
     selected_region |-> 0,
     schedule_saved |-> FALSE,
     region_schedule_csv |-> rows,
     outlook_created |-> {}]

\* load_schedule, lines 644-668
load_schedule(c) ==
    IF c.region_schedule_csv = None
    THEN c
    ELSE [c EXCEPT !.region_assignments = read_csv(c.region_schedule_csv),
                   !.schedule_saved = TRUE]

\* on_region_selected, lines 359-393: the listbox row index is selected
calendar_on_region_selected(c, index) ==
    [c EXCEPT !.selected_region = CalendarRegions[index]]

\* on_date_clicked that leaves schedule_saved as it was
on_date_clicked_saved(c, date_str) ==
    IF c.selected_region = 0
    THEN c
    ELSE IF /\ date_str \in DOMAIN c.region_assignments
            /\ c.region_assignments[date_str] = c.selected_region
         THEN [c EXCEPT !.region_assignments =
                   [d \in DOMAIN @ \ {date_str} |-> @[d]]]
         ELSE [c EXCEPT !.region_assignments =
                   [d \in DOMAIN @ \cup {date_str} |->
                       IF d = date_str THEN c.selected_region ELSE @[d]]]

\* on_date_clicked, lines 494-532: the click removes the date's assignment
\* to the selected region, or assigns the date to the selected region
on_date_clicked(c, date_str) ==
    IF c.selected_region = 0
    THEN c
    ELSE IF /\ date_str \in DOMAIN c.region_assignments
            /\ c.region_assignments[date_str] = c.selected_region
         THEN [c EXCEPT !.region_assignments =
                   [d \in DOMAIN @ \ {date_str} |-> @[d]],
                        !.schedule_saved = FALSE]
         ELSE [c EXCEPT !.region_assignments =
                   [d \in DOMAIN @ \cup {date_str} |->
                       IF d = date_str THEN c.selected_region ELSE @[d]],
                        !.schedule_saved = FALSE]

\* check_minimum_days_constraint, lines 573-592: the regions with fewer
\* days assigned than their minimum
check_minimum_days_constraint(c) ==
    {region_num \in Range(CalendarRegions) :
        /\ region_data[region_num].minimum_days > 0
        /\ Cardinality({d \in DOMAIN c.region_assignments :
                            c.region_assignments[d] = region_num})
             < region_data[region_num].minimum_days}

\* save_schedule, lines 594-642: response answers "Do you want to save
\* anyway?", writable tells whether to_csv can write the file
save_schedule(c, response, writable) ==
    IF DOMAIN c.region_assignments = {}
    THEN c
    ELSE IF check_minimum_days_constraint(c) # {} /\ ~response
    THEN c
    ELSE IF ~writable
    THEN c
    ELSE [c EXCEPT !.region_schedule_csv = to_csv(c.region_assignments),
                   !.schedule_saved = TRUE]

\* clear_assignments, lines 688-700: response answers "Clear all ...?"
clear_assignments(c, response) ==
    IF DOMAIN c.region_assignments = {}
    THEN c
    ELSE IF response
    THEN [c EXCEPT !.region_assignments = NoAssignments]
    ELSE c

\* export_to_outlook, lines 747-811: nothing is created when Outlook cannot
\* be reached; create_appointment returns None for the dates of failed
export_to_outlook(c, outlook_available, failed) ==
    IF DOMAIN c.region_assignments = {}
    THEN [c EXCEPT !.outlook_created = {}]
    ELSE IF ~c.schedule_saved
    THEN [c EXCEPT !.outlook_created = {}]
    ELSE IF ~outlook_available
    THEN [c EXCEPT !.outlook_created = {}]
    ELSE [c EXCEPT !.outlook_created =
              {<<date_str, c.region_assignments[date_str]>> :
                   date_str \in DOMAIN c.region_assignments \ failed}]

\* the organizer has been constructed for a project without a schedule
CalendarIdle ==
    LET c == CalendarConstructed(None)
    IN  /\ region_assignments = c.region_assignments
        /\ calendar_selected_region = c.selected_region
        /\ schedule_saved = c.schedule_saved
        /\ region_schedule_csv = c.region_schedule_csv
        /\ outlook_created = c.outlook_created

vars == <<appointments, pending_appointment, confirmed_appointments,
          travel_segments, conflicting_segments, start_hour, end_hour,
          time_slots, csv, appointment_duration_var, selected_region,
          selected_dates, region_postcodes, postcode_combo, timetable_cells,
          distances_df, clustered_regions_df, schedule_df, balance_vars,
          clustering_vars, preference_vars, calendar_vars>>

\* the object's fields as a record; exc and branch start clear
self ==
    [appointments |-> appointments,
     pending_appointment |-> pending_appointment,
     confirmed_appointments |-> confirmed_appointments,
     travel_segments |-> travel_segments,
     conflicting_segments |-> conflicting_segments,
     start_hour |-> start_hour,
     end_hour |-> end_hour,
     time_slots |-> time_slots,
     csv |-> csv,
     appointment_duration_var |-> appointment_duration_var,
     selected_region |-> selected_region,
     selected_dates |-> selected_dates,
     region_postcodes |-> region_postcodes,
     postcode_combo |-> postcode_combo,
     timetable_cells |-> timetable_cells,
     exc |-> FALSE,
     branch |-> ""]

\* the state a handler leaves becomes the next state
Commit(r) ==
    /\ appointments' = r.appointments
    /\ pending_appointment' = r.pending_appointment
    /\ confirmed_appointments' = r.confirmed_appointments
    /\ travel_segments' = r.travel_segments
    /\ conflicting_segments' = r.conflicting_segments
    /\ start_hour' = r.start_hour
    /\ end_hour' = r.end_hour
    /\ time_slots' = r.time_slots
    /\ csv' = r.csv
    /\ appointment_duration_var' = r.appointment_duration_var
    /\ selected_region' = r.selected_region
    /\ selected_dates' = r.selected_dates
    /\ region_postcodes' = r.region_postcodes
    /\ postcode_combo' = r.postcode_combo
    /\ timetable_cells' = r.timetable_cells
    /\ UNCHANGED <<distances_df, clustered_regions_df, schedule_df>>
    /\ UNCHANGED balance_vars
    /\ UNCHANGED clustering_vars
    /\ UNCHANGED <<preference_vars, calendar_vars>>

\* __init__ (lines 67-129) with a project whose confirmed_appointments.csv
\* does not exist yet: load_project_data selects the first region; frame is
\* what it leaves in distances_df, regions in clustered_regions_df and
\* schedule in schedule_df
SchedulerLoadedFrom(frame, regions, schedule) ==
    LET s0 == [appointments |-> <<>>,
               pending_appointment |-> None,
               confirmed_appointments |-> <<>>,
               travel_segments |-> <<>>,
               conflicting_segments |-> {},
               start_hour |-> 8,
               end_hour |-> 19,
               time_slots |-> generate_time_slots(8, 19),
               csv |-> <<>>,
               appointment_duration_var |-> 60,
               selected_region |-> 0,
               selected_dates |-> <<>>,
               region_postcodes |-> <<>>,
               postcode_combo |-> -1,
               timetable_cells |-> {},
               exc |-> FALSE,
               branch |-> ""]
        s1 == Took(update_timetable(
                    [s0 EXCEPT !.selected_region = 1,
                               !.selected_dates = schedule[1],
                               !.region_postcodes = regions[1],
                               !.postcode_combo = 0]), "selected")
    IN  /\ appointments = s1.appointments
        /\ pending_appointment = s1.pending_appointment
        /\ confirmed_appointments = s1.confirmed_appointments
        /\ travel_segments = s1.travel_segments
        /\ conflicting_segments = s1.conflicting_segments
        /\ start_hour = s1.start_hour
        /\ end_hour = s1.end_hour
        /\ time_slots = s1.time_slots
        /\ csv = s1.csv
        /\ appointment_duration_var = s1.appointment_duration_var
        /\ selected_region = s1.selected_region
        /\ selected_dates = s1.selected_dates
        /\ region_postcodes = s1.region_postcodes
        /\ postcode_combo = s1.postcode_combo
        /\ timetable_cells = s1.timetable_cells
        /\ distances_df = frame
        /\ clustered_regions_df = regions
        /\ schedule_df = schedule

\* the scheduler is the application that runs: of display_preferences it
\* has run lines 113-114, and the organizer of its project has saved nothing
ProjectLoadedFrom(frame, regions, schedule) ==
    /\ SchedulerLoadedFrom(frame, regions, schedule)
    /\ PreferencesInitialized
    /\ CalendarIdle

\* the project with the one region of ProjectRegions
ProjectLoadedWith(frame, schedule) ==
    ProjectLoadedFrom(frame, ProjectRegions, schedule)

\* the project whose region_schedule.csv gives the region one date
ProjectLoaded(frame) == ProjectLoadedWith(frame, ProjectSchedule)

\* TSPClusteringApp.__init__ (lines 72-75): the entries at their defaults
\* (1.0 hour per customer, 8 hours per day), nothing stored
NothingStored ==
    /\ service_time_var = 60
    /\ work_hours_var = 480
    /\ clustered_results = {}
    /\ driving_time_matrix = None
    /\ depot_postcode_idx = 0
    /\ minimum_days = None

\* the scheduler runs without a balance_clusters call in progress
NoClustering ==
    /\ labels = <<>>
    /\ n_clusters = 0
    /\ pass = "none"
    /\ cluster_id = 0
    /\ iteration = 0
    /\ improved = FALSE
    /\ violations_fixed = 0
    /\ hulls_overlap = FALSE
    /\ warned = FALSE
    /\ depot_postcode_var = 0
    /\ NothingStored

\* the project whose distances.csv holds ProjectDistances
Init == ProjectLoaded(<<ProjectDistances>>) /\ NoClustering

(***************************************************************************)
(* Actions: one per user event                                             *)
(***************************************************************************)
\* the cells within reach of the model's clicks
ClickCells ==
    {c \in timetable_cells :
        /\ time_to_minutes(c[2]) >= 8 * 60 + 30
        /\ time_to_minutes(c[2]) < 8 * 60 + 30 + 30 * MaxClickSlots}

CellClick ==
    \E c \in ClickCells, answer \in BOOLEAN :
        Commit(on_cell_click(self, c[1], c[2], answer))

Submit ==
    \E dialog \in SubmitDialogs, outlook_success \in {FALSE} :
        Commit(submit_appointment(self, dialog, outlook_success))

ClearSchedule ==
    \E answer \in BOOLEAN :
        Commit(clear_schedule(self, answer))

\* the orders in which a set of the project's dates can be iterated
DateOrders ==
    LET dates == UNION {Range(schedule_df[r]) : r \in DOMAIN schedule_df}
    IN  {order \in [1..Cardinality(dates) -> dates] :
            \A i, j \in DOMAIN order : i # j => order[i] # order[j]}

TimeConfigChanged ==
    \E new_start \in StartHours, new_end \in EndHours, order \in DateOrders :
        Commit(on_time_config_changed(self, new_start, new_end, order))

RegionSelected ==
    \E region_id \in DOMAIN clustered_regions_df :
        Commit(on_region_selected(self, region_id))

PostcodeSelected ==
    \E selected_index \in 0..(Len(region_postcodes) - 1) :
        Commit(on_postcode_selected(self, selected_index))

\* the duration spinbox is edited; no handler is bound to it
DurationEdited ==
    \E duration \in Durations :
        Commit([self EXCEPT !.appointment_duration_var = duration])

\* open_available_slots_dialog calls get_available_slots
AvailableSlots ==
    Commit(get_available_slots(self).st)

Next ==
    \/ CellClick
    \/ Submit
    \/ ClearSchedule
    \/ TimeConfigChanged
    \/ RegionSelected
    \/ PostcodeSelected
    \/ DurationEdited
    \/ AvailableSlots

Spec == Init /\ [][Next]_vars

(***************************************************************************)
(* The scheduler on a project whose region has two dates                   *)
(***************************************************************************)
\* region_schedule.csv with two dates for the region
TwoDaySchedule == [r \in {1} |-> <<1, 2>>]

DaysInit ==
    ProjectLoadedWith(<<ProjectDistances>>, TwoDaySchedule) /\ NoClustering

\* an arrow of a window spinbox steps a typed hour back to the current one:
\* the spinbox command runs with the window unchanged
DaysTimeConfigChanged ==
    \E order \in DateOrders :
        Commit(on_time_config_changed(self, start_hour, end_hour, order))

\* the events that stage, confirm, remove and recalculate appointments
DaysNext ==
    \/ CellClick
    \/ Submit
    \/ PostcodeSelected
    \/ DurationEdited
    \/ DaysTimeConfigChanged

DaysSpec == DaysInit /\ [][DaysNext]_vars

(***************************************************************************)
(* The scheduler on a project with two regions, each with its own date     *)
(***************************************************************************)
\* clustered_regions.csv with a second region
TwoRegions == <<<<"X", "y">>, <<"Z">>>>

\* region_schedule.csv: date 1 for region 1, date 2 for region 2
TwoRegionSchedule == <<<<1>>, <<2>>>>

RegionsInit ==
    ProjectLoadedFrom(<<ProjectDistances>>, TwoRegions, TwoRegionSchedule)
        /\ NoClustering

\* the events that select a region and stage, confirm, remove and clear
RegionsNext ==
    \/ CellClick
    \/ Submit
    \/ ClearSchedule
    \/ RegionSelected
    \/ PostcodeSelected

RegionsSpec == RegionsInit /\ [][RegionsNext]_vars

(***************************************************************************)
(* The distance lookup over the projects' distances.csv files              *)
(***************************************************************************)
\* the driving times a row may hold
DrivingTimes == {0, 20, 45}

\* the rows of a distances.csv between the depot and X, either direction
DistanceRows ==
    {row \in [origin : {"D", "X"}, destination : {"D", "X"},
              driving_time_minutes : DrivingTimes] :
        row.origin # row.destination}

\* what load_project_data leaves in distances_df: None when the project has
\* no distances.csv, else the frame of its rows
DistanceFrames ==
    {None} \cup {<<rows>> : rows \in
                    UNION {[1..n -> DistanceRows] : n \in 0..MaxDistanceRows}}

LookupInit == NoClustering /\ \E frame \in DistanceFrames : ProjectLoaded(frame)

\* the events that look travel times up: staging recalculates the date,
\* selecting a postcode displays its travel times
LookupNext ==
    \/ CellClick
    \/ PostcodeSelected

LookupSpec == LookupInit /\ [][LookupNext]_vars

(***************************************************************************)
(* A project on the half-hour grid: durations as the spinbox steps them,   *)
(* and a window that can end at 10:00                                      *)
(***************************************************************************)
\* distances.csv of the project: 45 minutes from D to X and from X to Y
GridDistances ==
    << [origin |-> "D", destination |-> "X", driving_time_minutes |-> 45],
       [origin |-> "X", destination |-> "Y", driving_time_minutes |-> 45] >>

\* values the duration spinbox steps through (from 30, increment 30)
GridDurations == {30, 60}

\* values of the timetable end spinbox
GridEndHours == {10, 19}

GridInit == ProjectLoaded(<<GridDistances>>) /\ NoClustering

GridDurationEdited ==
    \E duration \in GridDurations :
        Commit([self EXCEPT !.appointment_duration_var = duration])

GridTimeConfigChanged ==
    \E new_end \in GridEndHours, order \in DateOrders :
        Commit(on_time_config_changed(self, start_hour, new_end, order))

GridNext ==
    \/ CellClick
    \/ Submit
    \/ PostcodeSelected
    \/ GridDurationEdited
    \/ GridTimeConfigChanged
    \/ AvailableSlots

GridSpec == GridInit /\ [][GridNext]_vars

(***************************************************************************)
(* Syncing the confirmed appointments to Outlook                           *)
(***************************************************************************)
\* what the calendar call can do for one appointment
SyncOutcomes == {"created", "false", "raised"}

\* the outcomes of the calendar calls of one sync_to_outlook
OutcomeMaps(s) ==
    [{s.confirmed_appointments[i].postcode : i \in DOMAIN s.confirmed_appointments}
        -> SyncOutcomes]

SyncToOutlook ==
    \E response \in BOOLEAN, connected \in BOOLEAN, outcomes \in OutcomeMaps(self) :
        Commit(sync_to_outlook(self, response, connected, outcomes).st)

SyncNext ==
    \/ CellClick
    \/ Submit
    \/ PostcodeSelected
    \/ SyncToOutlook

SyncSpec == Init /\ [][SyncNext]_vars

(***************************************************************************)
(* TSPClusteringApp.balance_clusters from the minimum-size pass on.        *)
(* Coordinates are not modelled: wherever the code picks a point or a      *)
(* cluster by distance or by hull geometry, any candidate may be picked.   *)
(***************************************************************************)
\* line 942
min_size == 3

\* the numbers of regions asked for
ClusterCounts == {2, 3}

\* the numbers of customer locations
PointCounts == {MaxPoints - 1, MaxPoints}

\* range(n_clusters)
Clusters == 0..(n_clusters - 1)

\* labels == c
Members(l, c) == {p \in DOMAIN l : l[p] = c}

\* np.sum(labels == c)
Size(l, c) == Cardinality(Members(l, c))

\* np.argmax(cluster_sizes): the first cluster of the largest size
LargestCluster(l) ==
    CHOOSE c \in Clusters :
        \A d \in Clusters :
            Size(l, d) < Size(l, c) \/ (Size(l, d) = Size(l, c) /\ d >= c)

\* the loop variables of balance_clusters
Position(p, c, i, imp) ==
    /\ pass' = p
    /\ cluster_id' = c
    /\ iteration' = i
    /\ improved' = imp

\* everything outside balance_clusters: the scheduler's state and what the
\* clustering application has stored
SchedulerUnchanged ==
    /\ UNCHANGED <<appointments, pending_appointment, confirmed_appointments,
                   travel_segments, conflicting_segments, start_hour, end_hour,
                   time_slots, csv, appointment_duration_var, selected_region,
                   selected_dates, region_postcodes, postcode_combo,
                   timetable_cells, distances_df, clustered_regions_df,
                   schedule_df>>
    /\ UNCHANGED <<preference_vars, calendar_vars>>
    /\ UNCHANGED clustering_vars

\* check_convex_hulls_overlap is a function of the labels: its value can
\* differ only for other labels
Rechecked ==
    IF labels' = labels
    THEN hulls_overlap' = hulls_overlap
    ELSE hulls_overlap' \in BOOLEAN

\* lines 964-993: the labels the hierarchical clustering and the proximity
\* pass leave can be any assignment of the locations to the clusters
BalanceInit ==
    /\ ProjectLoaded(<<ProjectDistances>>)
    /\ n_clusters \in ClusterCounts
    /\ \E n \in PointCounts : labels \in [1..n -> Clusters]
    /\ pass = "min_size"
    /\ cluster_id = 0
    /\ iteration = 0
    /\ improved = FALSE
    /\ violations_fixed = 0
    /\ hulls_overlap \in BOOLEAN
    /\ warned = FALSE
    /\ depot_postcode_var = 1
    /\ NothingStored

\* mutant of ProximityFixed: the second location always joins the cluster of
\* the first
ProximityFixed_merged(l, i, j) == [l EXCEPT ![j] = l[i]]

\* lines 974-988 for two locations i < j of different clusters that are
\* closer than the proximity threshold
ProximityFixed(l, i, j) ==
    IF Size(l, l[i]) > Size(l, l[j]) /\ Size(l, l[i]) > min_size
    THEN [l EXCEPT ![i] = l[j]]
    ELSE IF Size(l, l[j]) >= min_size
         THEN [l EXCEPT ![j] = l[i]]
         ELSE l

\* lines 946-953: proximity_threshold is the 10th percentile of the
\* n * (n - 1) / 2 pairwise distances, so at most this many pairs lie below it
ClosePairs(n) == ((n * (n - 1)) \div 2 + 8) \div 10

\* lines 970-988: one pass meets a pair below the threshold whose locations
\* have different labels and reassigns one of them
ProximityFix ==
    /\ pass = "proximity"
    /\ violations_fixed < ClosePairs(Len(labels))
    /\ \E i \in DOMAIN labels, j \in DOMAIN labels :
          /\ i < j
          /\ labels[i] # labels[j]
          /\ ProximityFixed(labels, i, j) # labels
          /\ labels' = ProximityFixed(labels, i, j)
    /\ violations_fixed' = violations_fixed + 1
    /\ hulls_overlap' \in BOOLEAN
    /\ UNCHANGED <<n_clusters, pass, cluster_id, iteration, improved, warned>>
    /\ SchedulerUnchanged

\* lines 967-991: a pass is over; a pass that fixed nothing, or the last
\* pass, ends the enforcement
ProximityNext ==
    /\ pass = "proximity"
    /\ IF violations_fixed = 0 \/ iteration + 1 >= MaxProximityIterations
       THEN Position("min_size", 0, 0, FALSE)
       ELSE Position("proximity", 0, iteration + 1, FALSE)
    /\ violations_fixed' = 0
    /\ UNCHANGED <<labels, n_clusters, hulls_overlap, warned>>
    /\ SchedulerUnchanged

\* mutant of MinSizeShort: the while loop of line 997 never finds the
\* cluster filled
MinSizeShort_always(l, c) == TRUE

\* line 997: the cluster is below the minimum size
MinSizeShort(l, c) == Size(l, c) < min_size

\* lines 997-1018: one round of the while loop: a location of the largest
\* cluster is moved to the cluster being filled
MinSizeMove ==
    /\ pass = "min_size"
    /\ MinSizeShort(labels, cluster_id)
    /\ Size(labels, LargestCluster(labels)) > min_size
    /\ \E closest_idx \in Members(labels, LargestCluster(labels)) :
          labels' = [labels EXCEPT ![closest_idx] = cluster_id]
    /\ Rechecked
    /\ UNCHANGED <<n_clusters, pass, cluster_id, iteration, improved,
                   violations_fixed, warned>>
    /\ SchedulerUnchanged

\* lines 996-1002: the while loop ends (filled, or line 1001's break) and the
\* for loop goes on; after the last cluster the overlap pass starts
MinSizeNext ==
    /\ pass = "min_size"
    /\ \/ ~MinSizeShort(labels, cluster_id)
       \/ Size(labels, LargestCluster(labels)) <= min_size
    /\ IF cluster_id + 1 < n_clusters
       THEN Position("min_size", cluster_id + 1, 0, FALSE)
       ELSE Position("overlap", 0, 0, FALSE)
    /\ UNCHANGED <<labels, n_clusters, violations_fixed, hulls_overlap, warned>>
    /\ SchedulerUnchanged

\* lines 1027-1028 and 1068-1071: check_convex_hulls_overlap finds no
\* overlap and the overlap pass is left; the warning is logged when this
\* happens in the last round
OverlapBreak ==
    /\ pass = "overlap"
    /\ cluster_id = 0
    /\ ~hulls_overlap
    /\ warned' = ~(iteration < MaxOverlapIterations - 1)
    /\ Position("compact", 0, 0, FALSE)
    /\ UNCHANGED <<labels, n_clusters, violations_fixed, hulls_overlap>>
    /\ SchedulerUnchanged

\* mutant of OverlapMovable: the sizes of the two clusters are not tested
OverlapMovable_any(l, i, j) == TRUE

\* lines 1036-1037: both clusters are above the minimum size
OverlapMovable(l, i, j) == Size(l, i) > min_size /\ Size(l, j) > min_size

\* lines 1032-1064 for one cluster i: the labels its inner loop can leave.
\* The first cluster j after it whose hull intersects takes over a hull
\* point of i and the inner loop breaks, or no j does
OverlapScanned(l, i) ==
    {l} \cup
    UNION {{[l EXCEPT ![closest_hull_idx] = j] :
                closest_hull_idx \in Members(l, i)} :
           j \in {c \in (i + 1)..(n_clusters - 1) : OverlapMovable(l, i, c)}}

\* lines 1031-1066: the labels one round of the overlap pass can leave,
\* from cluster i on, while hulls intersect
RECURSIVE OverlapRound(_, _)
OverlapRound(l, i) ==
    IF i >= n_clusters THEN {l}
    ELSE UNION {OverlapRound(scanned, i + 1) : scanned \in OverlapScanned(l, i)}

\* lines 1031-1066 for one cluster i, in a round whose check found an
\* overlap; two hulls can intersect only while some hulls overlap
OverlapScan ==
    /\ pass = "overlap"
    /\ cluster_id < n_clusters
    /\ cluster_id = 0 => hulls_overlap
    /\ labels' \in (IF hulls_overlap
                    THEN OverlapScanned(labels, cluster_id)
                    ELSE {labels})
    /\ Rechecked
    /\ Position("overlap", cluster_id + 1, iteration, FALSE)
    /\ UNCHANGED <<n_clusters, violations_fixed, warned>>
    /\ SchedulerUnchanged

\* lines 1023 and 1068-1071: the next round of the overlap pass, or its last
\* round is over and the warning is logged
OverlapNext ==
    /\ pass = "overlap"
    /\ cluster_id = n_clusters
    /\ IF iteration + 1 < MaxOverlapIterations
       THEN Position("overlap", 0, iteration + 1, FALSE) /\ UNCHANGED warned
       ELSE Position("compact", 0, 0, FALSE) /\ warned' = TRUE
    /\ UNCHANGED <<labels, n_clusters, violations_fixed, hulls_overlap>>
    /\ SchedulerUnchanged

\* lines 1082-1086: the cluster is above the minimum size
CompactMovable(l, c) == Size(l, c) > min_size

\* lines 1081-1118 for one cluster: its outlier moves to another cluster
\* that has locations, or stays
CompactScan ==
    /\ pass = "compact"
    /\ cluster_id < n_clusters
    /\ \/ UNCHANGED <<labels, improved>>
       \/ /\ CompactMovable(labels, cluster_id)
          /\ \E outlier_idx \in Members(labels, cluster_id),
                best_cluster \in {c \in Clusters \ {cluster_id} : Size(labels, c) > 0} :
                labels' = [labels EXCEPT ![outlier_idx] = best_cluster]
          /\ improved' = TRUE
    /\ Rechecked
    /\ pass' = pass
    /\ cluster_id' = cluster_id + 1
    /\ UNCHANGED <<n_clusters, iteration, violations_fixed, warned>>
    /\ SchedulerUnchanged

\* lines 1078-1121: a round without a move, or the last round, ends the pass
\* and the labels are returned
CompactNext ==
    /\ pass = "compact"
    /\ cluster_id = n_clusters
    /\ IF improved /\ iteration + 1 < MaxCompactnessIterations
       THEN Position("compact", 0, iteration + 1, FALSE)
       ELSE Position("returned", cluster_id, iteration, improved)
    /\ UNCHANGED <<labels, n_clusters, violations_fixed, hulls_overlap, warned>>
    /\ SchedulerUnchanged

BalanceNext ==
    \/ MinSizeMove
    \/ MinSizeNext
    \/ OverlapBreak
    \/ OverlapScan
    \/ OverlapNext
    \/ CompactScan
    \/ CompactNext

BalanceSpec == BalanceInit /\ [][BalanceNext]_vars

(***************************************************************************)
(* TSPClusteringApp.run_clustering: the whole of balance_clusters and the  *)
(* results it stores. The postcodes of distance_matrix.csv are unique and  *)
(* sorted (postcode_distance_app.py writes them so); a postcode is named   *)
(* by its place in that order.                                             *)
(***************************************************************************)
\* the numbers of customer locations
LocationCounts == {MaxLocations - 1, MaxLocations}

\* distances.csv of the clustered project
ClusterDistances ==
    << [origin |-> 1, destination |-> 2, driving_time_minutes |-> 10],
       [origin |-> 3, destination |-> 2, driving_time_minutes |-> 20] >>

\* np.inf
Infinity == 999999

\* lines 749-758: the matrix over the n sorted postcodes; a later row of
\* distances.csv overwrites an earlier one, in both directions
BuiltMatrix(rows, n) ==
    [i \in 1..n, j \in 1..n |->
        LET known == SelectSeq(rows,
                       LAMBDA row : \/ (row.origin = i /\ row.destination = j)
                                    \/ (row.origin = j /\ row.destination = i))
        IN  IF known # <<>> THEN known[Len(known)].driving_time_minutes
            ELSE IF i = j THEN 0
            ELSE Infinity]

\* line 791: the sorted postcodes of the n customers, the depot left out
CustomerPostcodes(depot, n) == [i \in 1..n |-> IF i < depot THEN i ELSE i + 1]

\* line 792: customer postcode -> its place among the customers
customer_postcode_to_idx(customer_postcodes) ==
    [pc \in Range(customer_postcodes) |->
        CHOOSE i \in DOMAIN customer_postcodes : customer_postcodes[i] = pc]

\* lines 820-828: the depot's row with region 0 and a row per customer with
\* the number of its cluster plus one (sort_values fixes no order among the
\* rows of one region: the rows are kept as a set)
Results(l, depot) ==
    LET customer_postcodes == CustomerPostcodes(depot, Len(l))
    IN  {[postcode |-> depot, region |-> 0]} \cup
        {[postcode |-> pc,
          region |-> l[customer_postcode_to_idx(customer_postcodes)[pc]] + 1] :
            pc \in Range(customer_postcodes)}

\* lines 776-797: the hierarchical clustering gives every cluster a
\* location; balance_clusters starts with the proximity enforcement
ClusteringInit ==
    /\ ProjectLoaded(<<ClusterDistances>>)
    /\ n_clusters \in ClusterCounts
    /\ \E n \in LocationCounts :
          /\ labels \in {l \in [1..n -> Clusters] : \A c \in Clusters : Size(l, c) > 0}
          /\ depot_postcode_var \in {1, n + 1}
    /\ pass = "proximity"
    /\ cluster_id = 0
    /\ iteration = 0
    /\ improved = FALSE
    /\ violations_fixed = 0
    /\ hulls_overlap \in BOOLEAN
    /\ warned = FALSE
    /\ NothingStored

\* lines 799-856: run_clustering keeps the results of balance_clusters
StoreResults ==
    /\ pass = "returned"
    /\ pass' = "stored"
    /\ clustered_results' = Results(labels, depot_postcode_var)
    /\ driving_time_matrix' = BuiltMatrix(distances_df[1], Len(labels) + 1)
    /\ depot_postcode_idx' = depot_postcode_var
    /\ UNCHANGED <<labels, n_clusters, cluster_id, iteration, improved,
                   violations_fixed, hulls_overlap, warned>>
    /\ UNCHANGED <<depot_postcode_var, service_time_var, work_hours_var,
                   minimum_days>>
    /\ UNCHANGED <<appointments, pending_appointment, confirmed_appointments,
                   travel_segments, conflicting_segments, start_hour, end_hour,
                   time_slots, csv, appointment_duration_var, selected_region,
                   selected_dates, region_postcodes, postcode_combo,
                   timetable_cells, distances_df, clustered_regions_df,
                   schedule_df>>
    /\ UNCHANGED <<preference_vars, calendar_vars>>

ClusteringNext ==
    \/ ProximityFix
    \/ ProximityNext
    \/ MinSizeMove
    \/ MinSizeNext
    \/ OverlapBreak
    \/ OverlapScan
    \/ OverlapNext
    \/ CompactScan
    \/ CompactNext
    \/ StoreResults

ClusteringSpec == ClusteringInit /\ [][ClusteringNext]_vars

\* run_clustering runs in a thread of its own (line 700): a step that can be
\* taken is taken
FairClusteringSpec == ClusteringSpec /\ WF_vars(ClusteringNext)

(***************************************************************************)
(* TSPClusteringApp.calculate_minimum_days_for_region and save_results.    *)
(* Times are whole minutes; the average of line 1227 is kept as the pair   *)
(* (total, count) and the division is done once, in the ceiling.           *)
(***************************************************************************)
\* np.ceil(a / b) for b > 0
CeilDiv(a, b) == IF a % b = 0 THEN a \div b ELSE a \div b + 1

\* lines 1176-1186: the matrix indices of the customers labelled with the
\* region: customer_postcode_to_idx of their postcodes
MatrixIndices(l, region_num) ==
    LET customer_postcodes == CustomerPostcodes(depot_postcode_var, Len(l))
    IN  {customer_postcode_to_idx(customer_postcodes)[customer_postcodes[customer_idx]] :
            customer_idx \in Members(l, region_num - 1)}

\* lines 1196-1200: the least finite driving time in the depot's row
MinDepotDistance(matrix_indices) ==
    LET finite == {driving_time_matrix[depot_postcode_idx, idx] : idx \in matrix_indices}
                      \ {Infinity}
    IN  IF finite = {} THEN Infinity
        ELSE CHOOSE d \in finite : \A e \in finite : d <= e

\* lines 1217-1225: the ordered pairs of different indices with a finite time
FinitePairs(matrix_indices) ==
    {pair \in matrix_indices \X matrix_indices :
        pair[1] # pair[2] /\ driving_time_matrix[pair[1], pair[2]] # Infinity}

RECURSIVE SumTimes(_)
SumTimes(pairs) ==
    IF pairs = {} THEN 0
    ELSE LET pair == CHOOSE q \in pairs : TRUE
         IN  driving_time_matrix[pair[1], pair[2]] + SumTimes(pairs \ {pair})

\* lines 1190-1252 for the indices of a region that has customers: the days
\* are ceil(total minutes / work minutes) + 1
DaysFor(matrix_indices) ==
    LET n == Cardinality(matrix_indices)
        min_depot_distance == MinDepotDistance(matrix_indices)
        count == Cardinality(FinitePairs(matrix_indices))
        total_intra_distance == SumTimes(FinitePairs(matrix_indices))
        service_time_minutes == service_time_var * n
    IN  IF min_depot_distance = Infinity
        THEN CeilDiv(service_time_minutes, work_hours_var) + 1
        ELSE IF n > 1 /\ count > 0
        THEN CeilDiv((2 * min_depot_distance + service_time_minutes) * count
                        + total_intra_distance * (n - 1),
                     work_hours_var * count) + 1
        ELSE IF n > 1
        THEN CeilDiv(2 * min_depot_distance + min_depot_distance * n
                        + service_time_minutes, work_hours_var) + 1
        ELSE CeilDiv(2 * min_depot_distance + service_time_minutes,
                     work_hours_var) + 1

\* calculate_minimum_days_for_region with l for self.labels
MinimumDays(l, region_num) ==
    IF driving_time_matrix = None
    THEN (IF l # <<>> /\ CeilDiv(Size(l, region_num - 1), 5) > 1
          THEN CeilDiv(Size(l, region_num - 1), 5)
          ELSE 1)
    ELSE IF MatrixIndices(l, region_num) = {} THEN 1
    ELSE DaysFor(MatrixIndices(l, region_num))

calculate_minimum_days_for_region(region_num) == MinimumDays(labels, region_num)

\* the postcodes of a stored run: the depot and EstimateCustomers customers
EstimateCustomers == 3

\* driving times of distances.csv
EstimateTimes == {10, 240}

\* the rows a distances.csv can hold for the postcodes, origin before
\* destination
EstimateRows ==
    {[origin |-> o, destination |-> d, driving_time_minutes |-> t] :
        o \in 1..(EstimateCustomers + 1), d \in 1..(EstimateCustomers + 1),
        t \in EstimateTimes}

EstimateFrames ==
    UNION {[1..n -> {row \in EstimateRows : row.origin < row.destination}] :
              n \in 0..MaxDistanceRows}

\* what is typed into the service time entry (hours, here minutes)
ServiceTimes == {-600, 60}

\* the values of the work hours spinbox (4 to 12 hours, here minutes)
WorkHours == {240, 480}

\* run_clustering has stored its results for two regions
EstimateInit ==
    /\ \E frame \in EstimateFrames :
          /\ ProjectLoaded(<<frame>>)
          /\ driving_time_matrix = BuiltMatrix(frame, EstimateCustomers + 1)
    /\ n_clusters = 2
    /\ labels \in {l \in [1..EstimateCustomers -> Clusters] :
                      \A c \in Clusters : Size(l, c) > 0}
    /\ depot_postcode_var \in 1..(EstimateCustomers + 1)
    /\ depot_postcode_idx = depot_postcode_var
    /\ clustered_results = Results(labels, depot_postcode_var)
    /\ pass = "stored"
    /\ cluster_id = 2
    /\ iteration = 0
    /\ improved = FALSE
    /\ violations_fixed = 0
    /\ hulls_overlap = FALSE
    /\ warned = FALSE
    /\ service_time_var = 60
    /\ work_hours_var = 480
    /\ minimum_days = None

\* the scheduler's state and the locals of balance_clusters
OnlyClusteringInputs ==
    /\ UNCHANGED <<appointments, pending_appointment, confirmed_appointments,
                   travel_segments, conflicting_segments, start_hour, end_hour,
                   time_slots, csv, appointment_duration_var, selected_region,
                   selected_dates, region_postcodes, postcode_combo,
                   timetable_cells, distances_df, clustered_regions_df,
                   schedule_df>>
    /\ UNCHANGED <<preference_vars, calendar_vars>>
    /\ UNCHANGED balance_vars
    /\ UNCHANGED <<depot_postcode_var, clustered_results, driving_time_matrix,
                   depot_postcode_idx>>

\* lines 282-283: the service time entry is edited
ServiceTimeEdited ==
    /\ pass = "stored"
    /\ service_time_var' \in ServiceTimes
    /\ UNCHANGED <<work_hours_var, minimum_days>>
    /\ OnlyClusteringInputs

\* lines 288-289: the work hours spinbox is edited
WorkHoursEdited ==
    /\ pass = "stored"
    /\ work_hours_var' \in WorkHours
    /\ UNCHANGED <<service_time_var, minimum_days>>
    /\ OnlyClusteringInputs

\* save_results (lines 608-678): the minimum days of every region are
\* calculated and written with the summary
SaveResults ==
    /\ pass = "stored"
    /\ minimum_days' =
          [region_num \in 1..n_clusters |->
              calculate_minimum_days_for_region(region_num)]
    /\ UNCHANGED <<service_time_var, work_hours_var>>
    /\ OnlyClusteringInputs

EstimateNext ==
    \/ ServiceTimeEdited
    \/ WorkHoursEdited
    \/ SaveResults

EstimateSpec == EstimateInit /\ [][EstimateNext]_vars

(***************************************************************************)
(* show_edit_regions_dialog: manual reassignment of the stored results     *)
(***************************************************************************)
\* customers of the edited project
EditCustomers == 4

\* the choices of the "New Region" combobox: "Region i", "Create New Region
\* n_clusters + 1" or "Exclude from all regions"
RegionOptions ==
    {[text |-> "Region", number |-> i] : i \in 1..n_clusters}
        \cup {[text |-> "Create New Region", number |-> n_clusters + 1],
              [text |-> "Exclude from all regions", number |-> 0]}

\* lines 1626-1638: the region a choice stands for
NewRegion(new_region_str) ==
    IF new_region_str.text = "Exclude from all regions" THEN -1
    ELSE IF new_region_str.text = "Create New Region" THEN n_clusters + 1
    ELSE new_region_str.number

\* lines 1641-1643: the region of the postcode's row
CurrentRegion(selected_postcode) ==
    (CHOOSE row \in clustered_results : row.postcode = selected_postcode).region

\* lines 1650-1652: the rows of the postcode get the new region
EditedResults(results, selected_postcode, new_region) ==
    {IF row.postcode = selected_postcode
     THEN [row EXCEPT !.region = new_region] ELSE row : row \in results}

\* mutant of EditedLabels: the label is the region number itself
EditedLabels_unshifted(l, postcode_idx, new_region) ==
    [l EXCEPT ![postcode_idx] = new_region]

\* lines 1655-1660: labels are 0-indexed, an excluded location gets -1
EditedLabels(l, postcode_idx, new_region) ==
    [l EXCEPT ![postcode_idx] = IF new_region = -1 THEN -1 ELSE new_region - 1]

\* after run_clustering (lines 843-856) on a project with EditCustomers
\* customers in two territories
EditInit ==
    /\ ProjectLoaded(<<ClusterDistances>>)
    /\ driving_time_matrix = BuiltMatrix(ClusterDistances, EditCustomers + 1)
    /\ n_clusters = 2
    /\ labels \in {l \in [1..EditCustomers -> Clusters] :
                      \A c \in Clusters : Size(l, c) > 0}
    /\ depot_postcode_var \in {1, EditCustomers + 1}
    /\ depot_postcode_idx = depot_postcode_var
    /\ clustered_results = Results(labels, depot_postcode_var)
    /\ pass = "stored"
    /\ cluster_id = 2
    /\ iteration = 0
    /\ improved = FALSE
    /\ violations_fixed = 0
    /\ hulls_overlap = FALSE
    /\ warned = FALSE
    /\ service_time_var = 60
    /\ work_hours_var = 480
    /\ minimum_days = None

\* apply_edit (lines 1613-1678): the choice is parsed, a new territory
\* raises n_clusters, an unchanged region returns, else the row and the
\* label of the postcode are rewritten
ApplyEdit ==
    /\ pass = "stored"
    /\ \E selected_postcode \in {row.postcode : row \in {r \in clustered_results : r.region # 0}}, new_region_str \in RegionOptions :
          LET new_region == NewRegion(new_region_str)
              customer_postcodes == CustomerPostcodes(depot_postcode_var, Len(labels))
              postcode_idx == customer_postcode_to_idx(customer_postcodes)[selected_postcode]
          IN  /\ new_region_str.text = "Create New Region" => n_clusters < MaxRegions
              /\ n_clusters' = IF new_region_str.text = "Create New Region" THEN n_clusters + 1
                               ELSE n_clusters
              /\ IF CurrentRegion(selected_postcode) = new_region
                 THEN UNCHANGED <<clustered_results, labels>>
                 ELSE /\ clustered_results' =
                            EditedResults(clustered_results, selected_postcode, new_region)
                      /\ labels' = EditedLabels(labels, postcode_idx, new_region)
    /\ UNCHANGED <<pass, cluster_id, iteration, improved, violations_fixed,
                   hulls_overlap, warned>>
    /\ UNCHANGED <<depot_postcode_var, service_time_var, work_hours_var,
                   driving_time_matrix, depot_postcode_idx, minimum_days>>
    /\ UNCHANGED <<appointments, pending_appointment, confirmed_appointments,
                   travel_segments, conflicting_segments, start_hour, end_hour,
                   time_slots, csv, appointment_duration_var, selected_region,
                   selected_dates, region_postcodes, postcode_combo,
                   timetable_cells, distances_df, clustered_regions_df,
                   schedule_df>>
    /\ UNCHANGED <<preference_vars, calendar_vars>>

EditNext == ApplyEdit

EditSpec == EditInit /\ [][EditNext]_vars

(***************************************************************************)
(* display_preferences: the calls a process makes on the module            *)
(***************************************************************************)
\* on_display_preference_changed of the scheduler and of the organizer
Callbacks == {"scheduler", "organizer"}

\* the module is imported; display_preferences.json is missing or holds
\* one of the texts
PreferenceInit ==
    /\ SchedulerLoadedFrom(<<ProjectDistances>>, ProjectRegions, ProjectSchedule)
    /\ NoClustering
    /\ CalendarIdle
    /\ \E text \in PreferenceTexts \cup {NoFile} :
          /\ display_preference = Imported(text).display_preference
          /\ preference_file = Imported(text).preference_file
          /\ preference_callbacks = Imported(text).preference_callbacks
          /\ preference_json = Imported(text).preference_json
          /\ invoked = Imported(text).invoked
          /\ printed = Imported(text).printed

\* the applications' state and the project's files
OnlyPreferences ==
    /\ UNCHANGED <<appointments, pending_appointment, confirmed_appointments,
                   travel_segments, conflicting_segments, start_hour, end_hour,
                   time_slots, csv, appointment_duration_var, selected_region,
                   selected_dates, region_postcodes, postcode_combo,
                   timetable_cells>>
    /\ UNCHANGED <<distances_df, clustered_regions_df, schedule_df>>
    /\ UNCHANGED <<balance_vars, clustering_vars, calendar_vars>>

Initialize ==
    /\ CommitPreferences(initialize(prefs))
    /\ OnlyPreferences

GetShowNames ==
    /\ CommitPreferences(get_show_names(prefs).st)
    /\ OnlyPreferences

SetShowNames ==
    /\ \E show_names \in BOOLEAN, writable \in BOOLEAN,
          outcomes \in [DOMAIN preference_callbacks -> {"returns", "raises"}] :
          CommitPreferences(set_show_names(prefs, show_names, writable, outcomes))
    /\ OnlyPreferences

RegisterCallback ==
    /\ Len(preference_callbacks) < MaxCallbacks
    /\ \E callback \in Callbacks :
          CommitPreferences(register_callback(prefs, callback))
    /\ OnlyPreferences

UnregisterCallback ==
    /\ \E callback \in Callbacks :
          CommitPreferences(unregister_callback(prefs, callback))
    /\ OnlyPreferences

PreferenceNext ==
    \/ Initialize
    \/ GetShowNames
    \/ SetShowNames
    \/ RegisterCallback
    \/ UnregisterCallback

PreferenceSpec == PreferenceInit /\ [][PreferenceNext]_vars

(***************************************************************************)
(* CalendarOrganizerApp: date clicks, saves, reloads, clears and exports   *)
(***************************************************************************)
\* every dict of dates to regions
Assignments ==
    UNION {[dates -> Range(CalendarRegions)] : dates \in SUBSET CalendarDates}

\* __init__ and auto_load_project (lines 60-93, 251-263): the project has
\* no region_schedule.csv, or one an earlier save_schedule wrote
CalendarInit ==
    /\ SchedulerLoadedFrom(<<ProjectDistances>>, ProjectRegions, ProjectSchedule)
    /\ NoClustering
    /\ PreferencesInitialized
    /\ \E rows \in {None} \cup {to_csv(a) : a \in Assignments \ {NoAssignments}} :
          LET c == load_schedule(CalendarConstructed(rows))
          IN  /\ region_assignments = c.region_assignments
              /\ calendar_selected_region = c.selected_region
              /\ schedule_saved = c.schedule_saved
              /\ region_schedule_csv = c.region_schedule_csv
              /\ outlook_created = c.outlook_created

\* the other applications' state and the project's other files
OnlyCalendar ==
    /\ UNCHANGED <<appointments, pending_appointment, confirmed_appointments,
                   travel_segments, conflicting_segments, start_hour, end_hour,
                   time_slots, csv, appointment_duration_var, selected_region,
                   selected_dates, region_postcodes, postcode_combo,
                   timetable_cells>>
    /\ UNCHANGED <<distances_df, clustered_regions_df, schedule_df>>
    /\ UNCHANGED <<balance_vars, clustering_vars, preference_vars>>

CalendarRegionSelected ==
    /\ \E index \in DOMAIN CalendarRegions :
          CommitCalendar(calendar_on_region_selected(calendar, index))
    /\ OnlyCalendar

DateClicked ==
    /\ \E date_str \in CalendarDates :
          CommitCalendar(on_date_clicked(calendar, date_str))
    /\ OnlyCalendar

SaveSchedule ==
    /\ \E response \in BOOLEAN, writable \in BOOLEAN :
          CommitCalendar(save_schedule(calendar, response, writable))
    /\ OnlyCalendar

\* the "Reload Schedule" button
LoadSchedule ==
    /\ CommitCalendar(load_schedule(calendar))
    /\ OnlyCalendar

ClearAssignments ==
    /\ \E response \in BOOLEAN :
          CommitCalendar(clear_assignments(calendar, response))
    /\ OnlyCalendar

ExportToOutlook ==
    /\ \E outlook_available \in BOOLEAN, failed \in SUBSET CalendarDates :
          CommitCalendar(export_to_outlook(calendar, outlook_available, failed))
    /\ OnlyCalendar

CalendarNext ==
    \/ CalendarRegionSelected
    \/ DateClicked
    \/ SaveSchedule
    \/ LoadSchedule
    \/ ClearAssignments
    \/ ExportToOutlook

CalendarSpec == CalendarInit /\ [][CalendarNext]_vars

(***************************************************************************)
(* The minimum-size pass and the overlap pass of balance_clusters for      *)
(* three clusters of locations that are labelled cluster by cluster        *)
(***************************************************************************)
\* the least number of locations with which the overlap pass can move
\* locations out of two of three clusters
WidePoints == 3 * (min_size + 1)

\* the labels of WidePoints locations: a block for each of 3 clusters
BlockLabels ==
    {[p \in 1..WidePoints |-> IF p <= a THEN 0 ELSE IF p <= b THEN 1 ELSE 2] :
        a \in 1..(WidePoints - 2), b \in 2..(WidePoints - 1)}

WideInit ==
    /\ ProjectLoaded(<<ClusterDistances>>)
    /\ n_clusters = 3
    /\ labels \in {l \in BlockLabels : \A c \in Clusters : Size(l, c) > 0}
    /\ depot_postcode_var = 1
    /\ pass = "min_size"
    /\ cluster_id = 0
    /\ iteration = 0
    /\ improved = FALSE
    /\ violations_fixed = 0
    /\ hulls_overlap \in BOOLEAN
    /\ warned = FALSE
    /\ NothingStored

\* the passes up to the end of the overlap pass
WideNext ==
    \/ MinSizeMove
    \/ MinSizeNext
    \/ OverlapBreak
    \/ OverlapScan
    \/ OverlapNext

WideSpec == WideInit /\ [][WideNext]_vars

(***************************************************************************)
(* Properties                                                              *)
(***************************************************************************)
\* the location a postcode string names (postcodes are compared upper-cased
\* by display_text_to_postcode and get_travel_time)
Location(postcode) == upper(postcode)

\* the timetable cells that hold a location
CellsOf(loc) == {k \in DOMAIN appointments : Location(appointments[k]) = loc}

\* the locations that have a confirmed appointment
ConfirmedLocations ==
    {Location(confirmed_appointments[i].postcode) : i \in DOMAIN confirmed_appointments}

\* C1: every location has at most one appointment system-wide: no location
\* has two confirmed appointments, and a location with a confirmed
\* appointment is neither staged as pending nor present in a second cell.
C1_OneAppointmentPerLocation ==
    /\ \A i, j \in DOMAIN confirmed_appointments :
          Location(confirmed_appointments[i].postcode)
              = Location(confirmed_appointments[j].postcode) => i = j
    /\ \A i \in DOMAIN confirmed_appointments :
          LET row == confirmed_appointments[i]
          IN  /\ \/ pending_appointment = None
                 \/ Location(pending_appointment[3]) # Location(row.postcode)
              /\ CellsOf(Location(row.postcode)) \subseteq {<<row.date, row.time>>}

\* the pending appointment's location already has a confirmed appointment
DuplicatePending ==
    /\ pending_appointment # None
    /\ InConfirmed(confirmed_appointments,
                   display_text_to_postcode(pending_appointment[3]))

\* C2: a submit of a pending appointment whose location already has a
\* confirmed appointment is rejected and changes nothing: the confirmed
\* appointments, the timetable entries, the travel segments and the CSV
\* (and the pending record) are what they were.
C2_DuplicateSubmitRejected ==
    [][(DuplicatePending /\ Submit)
          => UNCHANGED <<confirmed_appointments, appointments, travel_segments,
                         conflicting_segments, csv, pending_appointment>>]_vars

\* C2 witness: a pending appointment for a confirmed location is reached and
\* submit takes its duplicate branch there
C2_Witness ==
    /\ DuplicatePending
    /\ submit_appointment(self, "plain", FALSE).branch = "duplicate"

\* the timetable entries whose location has no confirmed appointment
UnconfirmedCells ==
    {k \in DOMAIN appointments : Location(appointments[k]) \notin ConfirmedLocations}

\* C3: at most one appointment is pending, and the pending record agrees with
\* the timetable: at most one entry belongs to a location without a confirmed
\* appointment, there is one exactly when pending_appointment is set, and it
\* is at the pending (date, time) with the pending location.
C3_PendingConsistent ==
    /\ Cardinality(UnconfirmedCells) <= 1
    /\ (UnconfirmedCells # {}) <=> (pending_appointment # None)
    /\ \A k \in UnconfirmedCells :
          /\ k = <<pending_appointment[1], pending_appointment[2]>>
          /\ appointments[k] = pending_appointment[3]

\* a click on the cell of a confirmed appointment, answered with answer
ConfirmedCellClicked(answer) ==
    \E c \in ClickCells :
        /\ c \in DOMAIN appointments
        /\ InConfirmed(confirmed_appointments, appointments[c])
        /\ Commit(on_cell_click(self, c[1], c[2], answer))

\* clear_schedule run up to its dialog, answered with answer
ClearAnswered(answer) ==
    /\ clear_schedule(self, TRUE).branch = "cleared"
    /\ Commit(clear_schedule(self, answer))

\* C4: a confirmed appointment leaves the confirmed set only in a step that
\* is a click on its cell or a clear_schedule answered yes; a step answered
\* no leaves the confirmed appointments, the timetable entries, the travel
\* segments and the CSV unchanged.
C4_RemovalNeedsYes ==
    [][/\ ~(Range(confirmed_appointments) \subseteq Range(confirmed_appointments'))
            => (ConfirmedCellClicked(TRUE) \/ ClearAnswered(TRUE))
       /\ (ConfirmedCellClicked(FALSE) \/ ClearAnswered(FALSE))
            => UNCHANGED <<confirmed_appointments, appointments,
                           travel_segments, csv>>]_vars

\* C4 witness: a confirmed appointment whose cell can be clicked; yes removes
\* it and no keeps it
C4_Witness ==
    \E c \in ClickCells :
        /\ c \in DOMAIN appointments
        /\ InConfirmed(confirmed_appointments, appointments[c])
        /\ on_cell_click(self, c[1], c[2], TRUE).branch = "remove_confirmed"
        /\ on_cell_click(self, c[1], c[2], FALSE).branch = "keep_confirmed"

\* C5: get_available_slots leaves the timetable entries, the travel
\* segments and the conflicting segments exactly as they were before the
\* call.
C5_ProbeLeavesNoTrace ==
    [][AvailableSlots
          => UNCHANGED <<appointments, travel_segments, conflicting_segments>>]_vars

\* a second call on the state the first call r1 left returns r1's list
SameSlotsAgain(r1) ==
    ~r1.st.exc =>
        get_available_slots([r1.st EXCEPT !.branch = ""]).available_slots
            = r1.available_slots

\* C6: two calls of get_available_slots in a row, with no other operation in
\* between, return the same list of slots (when the first call returns).
C6_ProbeTwiceSameSlots == SameSlotsAgain(get_available_slots(self))

\* the first call r1 accepted some slots, rejected others and left the travel
\* segments changed
ProbeActed(r1) ==
    /\ ~r1.st.exc
    /\ r1.available_slots # <<>>
    /\ Len(r1.available_slots) < Len(ProbeOrder(self))
    /\ r1.st.travel_segments # travel_segments

\* C6 witness: a timetable with an appointment on which a call accepts some
\* slots and rejects others
C6_Witness ==
    /\ appointments # <<>>
    /\ ProbeActed(get_available_slots(self))

\* the travel segments of one date
DateSegments(segs, date_str) == {seg \in Range(segs) : seg[1] = date_str}

\* C7: a date without appointments has no travel segments.
C7_NoAppointmentsNoSegments ==
    \A seg \in Range(travel_segments) :
        \E k \in DOMAIN appointments : k[1] = seg[1]

\* the state r a confirming submit leaves has, for date_str, the segments a
\* recalculation of r would produce
SubmitRecalculated(r, date_str) ==
    r.branch = "confirmed" =>
        DateSegments(r.travel_segments, date_str)
            = DateSegments(recalculate_travel_times(r, date_str).travel_segments,
                           date_str)

\* C8: right after submit_appointment confirms the pending appointment, the
\* travel segments of its date are what recalculate_travel_times produces
\* for that date from the stored durations.
C8_SubmitSegmentsRecalculated ==
    pending_appointment # None =>
        SubmitRecalculated(submit_appointment(self, "plain", FALSE),
                           pending_appointment[1])

\* the key of a segment in conflicting_segments
FlagKey(seg) == <<seg[1], seg[2], seg[3]>>

\* r is the state with the working window 08:00-19:00 in which the only
\* appointment of date_str is the 60-minute appointment at X at 09:00, just
\* staged
SingleAtNine(r, date_str) ==
    /\ r.branch = "staged" /\ ~r.exc
    /\ r.start_hour = 8 /\ r.end_hour = 19
    /\ r.appointments = (<<date_str, <<9, 0>>>> :> "X")
    /\ r.pending_appointment = <<date_str, <<9, 0>>, "X", 60>>

\* the FROM_DEPOT segment [08:15, 09:00) is there and is not flagged
FromDepotClear(r, date_str) ==
    LET seg == Segment(date_str, 8 * 60 + 15, 9 * 60, 45, FALSE, TRUE)
    IN  /\ seg \in Range(r.travel_segments)
        /\ FlagKey(seg) \notin r.conflicting_segments

SecondAtHalfPastEight(r, date_str) ==
    /\ r.branch = "staged" /\ ~r.exc
    /\ r.start_hour = 8 /\ r.end_hour = 19
    /\ r.appointments = (<<date_str, <<8, 30>>>> :> "y" @@ <<date_str, <<9, 0>>>> :> "X")
    /\ r.pending_appointment = <<date_str, <<8, 30>>, "y", 45>>
    /\ r.confirmed_appointments =
          <<[postcode |-> "X", date |-> date_str, time |-> <<9, 0>>,
             duration |-> 60, in_outlook |-> FALSE]>>

\* the segments of the date that leave the depot
FromDepotSegments(r, date_str) ==
    {seg \in DateSegments(r.travel_segments, date_str) : seg[4].from_home}

\* the segments of the date between two appointments
BetweenOnDate(r, date_str) ==
    {seg \in DateSegments(r.travel_segments, date_str) :
        ~seg[4].from_home /\ ~seg[4].to_home}

\* C10 as stated: adding the appointment at Y at 08:30-09:15 produces a
\* conflict on the FROM_DEPOT segment.
C10_FromDepotConflict ==
    \A date_str \in Range(selected_dates), answer \in BOOLEAN :
        LET r == on_cell_click(self, date_str, <<8, 30>>, answer)
        IN  SecondAtHalfPastEight(r, date_str) =>
              \E seg \in FromDepotSegments(r, date_str) :
                  FlagKey(seg) \in r.conflicting_segments

\* in the scenario the FROM_DEPOT segment leads to Y, ends at 08:30 and
\* overlaps no appointment; the flagged segment is the BETWEEN segment from Y
\* to X, which starts at 09:15, inside X's 09:00-10:00
BetweenConflict(r, date_str) ==
    /\ FromDepotSegments(r, date_str) # {}
    /\ \A seg \in FromDepotSegments(r, date_str) :
          /\ seg[3] = 8 * 60 + 30
          /\ \A c \in TravelConflicts(r, date_str) : c[1] # seg
          /\ FlagKey(seg) \notin r.conflicting_segments
    /\ \E seg \in BetweenOnDate(r, date_str) :
          /\ seg[2] = 9 * 60 + 15
          /\ FlagKey(seg) \in r.conflicting_segments

\* C10 amended: adding the appointment at Y at 08:30-09:15 makes Y the first
\* stop: the FROM_DEPOT segment ends at 08:30, overlaps no appointment and
\* is not flagged for one, and the conflict is on the BETWEEN segment from Y
\* to X that starts at 09:15.
C10_BetweenSegmentConflict ==
    \A date_str \in Range(selected_dates), answer \in BOOLEAN :
        LET r == on_cell_click(self, date_str, <<8, 30>>, answer)
        IN  SecondAtHalfPastEight(r, date_str) => BetweenConflict(r, date_str)

\* C10 witness: the state the staging click leaves in that scenario
C10_Witness ==
    \E date_str \in Range(selected_dates) :
        /\ SecondAtHalfPastEight([self EXCEPT !.branch = "staged"], date_str)
        /\ BetweenConflict(self, date_str)

\* the segments of the date that return to the depot
ToDepotSegments(r, date_str) ==
    {seg \in DateSegments(r.travel_segments, date_str) : seg[4].to_home}

\* the depot legs of the date that leave the working window are flagged
WindowFlagged(r, date_str) ==
    /\ \A seg \in FromDepotSegments(r, date_str) :
          seg[2] < r.start_hour * 60 => FlagKey(seg) \in r.conflicting_segments
    /\ \A seg \in ToDepotSegments(r, date_str) :
          seg[3] > r.end_hour * 60 => FlagKey(seg) \in r.conflicting_segments

\* C11: after a click stages an appointment, a FROM_DEPOT segment of its
\* date that starts before the working-window start and a TO_DEPOT segment
\* that ends after the working-window end are in conflicting_segments,
\* whether or not they overlap an appointment.
C11_WindowFlagsAfterStaging ==
    \A c \in ClickCells, answer \in BOOLEAN :
        LET r == on_cell_click(self, c[1], c[2], answer)
        IN  (r.branch = "staged" /\ ~r.exc) => WindowFlagged(r, c[1])

\* the confirmed rows that record the timetable entry at cell key k
RowsOfEntry(s, k) ==
    SelectSeq(s.confirmed_appointments,
        LAMBDA row : /\ row.date = k[1] /\ row.time = k[2]
                     /\ row.postcode = Location(s.appointments[k]))

\* the duration recorded for the timetable entry at cell key k: that of the
\* pending appointment or of the confirmed row it stands for; an entry with
\* neither has the duration the engine gives it
OwnDuration(s, k) ==
    IF /\ s.pending_appointment # None
       /\ k = <<s.pending_appointment[1], s.pending_appointment[2]>>
       /\ s.appointments[k] = s.pending_appointment[3]
    THEN s.pending_appointment[4]
    ELSE IF RowsOfEntry(s, k) # <<>> THEN RowsOfEntry(s, k)[1].duration
    ELSE DurationOf(s, s.appointments[k])

\* some appointment of the date overlaps the segment, each appointment
\* ending at its start plus its own duration
OverlapsAppointment(s, date_str, seg) ==
    \E k \in DOMAIN s.appointments :
        /\ k[1] = date_str
        /\ seg[2] < time_to_minutes(k[2]) + OwnDuration(s, k)
        /\ seg[3] > time_to_minutes(k[2])

\* C12: check_travel_conflicts(date) reports a conflict for a travel segment
\* of that date exactly when some appointment of the date satisfies
\* seg_start < appt_end and seg_end > appt_start, with appt_end the
\* appointment's start plus its own duration; nothing of another date is
\* reported.
C12_ConflictIffOverlap ==
    \A date_str \in Range(selected_dates) :
        LET r == check_travel_conflicts(self, date_str)
        IN  /\ \A seg \in DateSegments(travel_segments, date_str) :
                  (FlagKey(seg) \in r.conflicting_segments)
                      <=> OverlapsAppointment(self, date_str, seg)
            /\ \A f \in r.conflicting_segments : f[1] = date_str

\* the texts the lookup is called with: the depot, the region's postcodes,
\* and the empty text
LookupTexts == {"", home_postcode} \cup Range(region_postcodes)

\* C17: get_travel_time(a, b) = get_travel_time(b, a) for all pairs, also
\* when distances.csv holds only one direction of a pair or holds both
\* directions with different values.
C17_LookupSymmetric ==
    \A a, b \in LookupTexts : get_travel_time(a, b) = get_travel_time(b, a)

\* the frame holds both directions of the pair depot-X with different
\* positive times
BothDirectionsDiffer ==
    /\ distances_df # None
    /\ \E i, j \in DOMAIN distances_df[1] :
          /\ distances_df[1][i].origin = distances_df[1][j].destination
          /\ distances_df[1][i].destination = distances_df[1][j].origin
          /\ distances_df[1][i].driving_time_minutes > 0
          /\ distances_df[1][j].driving_time_minutes > 0
          /\ distances_df[1][i].driving_time_minutes
                # distances_df[1][j].driving_time_minutes

\* C17 witness: with both directions present and different, X is staged and
\* its two depot legs, looked up in opposite directions, last the time of
\* the first row
C17_Witness ==
    /\ BothDirectionsDiffer
    /\ pending_appointment # None /\ pending_appointment[3] = "X"
    /\ Len(travel_segments) = 2
    /\ travel_segments[1][4].from_home /\ travel_segments[2][4].to_home
    /\ travel_segments[1][4].minutes = distances_df[1][1].driving_time_minutes
    /\ travel_segments[2][4].minutes = distances_df[1][1].driving_time_minutes

\* the locations the lookup is called with
LookupLocations == LookupTexts \ {""}

\* the distance data holds the pair of locations in some direction
PairLoaded(a, b) ==
    /\ distances_df # None
    /\ \E i \in DOMAIN distances_df[1] :
          {distances_df[1][i].origin, distances_df[1][i].destination}
              = {Location(a), Location(b)}

\* C18: in every state get_travel_time(a, a) is 0 for every location a, also
\* when no distance data is loaded, and a pair of different locations that
\* the distance data does not hold resolves to 30 minutes.
C18_LookupFallback ==
    \A a, b \in LookupLocations :
        /\ Location(a) = Location(b) => get_travel_time(a, b) = 0
        /\ (Location(a) # Location(b) /\ ~PairLoaded(a, b))
              => get_travel_time(a, b) = 30

\* the (date, slot) pairs a call of get_available_slots returns
ReturnedSlots == Range(get_available_slots(self).available_slots)

\* C14: get_available_slots returns no slot whose appointment, the slot start
\* plus the requested duration, would end after the working-window end
\* (end_hour * 60 minutes).
C14_SlotsEndInWindow ==
    \A cell_key \in ReturnedSlots :
        time_to_minutes(cell_key[2]) + appointment_duration_var <= end_hour * 60

\* the interval of a returned slot overlaps the interval of the appointment
\* at cell key k, which lasts its own stored duration
OverlapsScheduled(cell_key, k) ==
    /\ k[1] = cell_key[1]
    /\ time_to_minutes(cell_key[2]) < time_to_minutes(k[2]) + OwnDuration(self, k)
    /\ time_to_minutes(cell_key[2]) + appointment_duration_var > time_to_minutes(k[2])

\* C15: get_available_slots returns no slot whose interval
\* [start, start + duration) overlaps the interval of an appointment already
\* scheduled on that date, the existing appointment lasting its own stored
\* duration.
C15_SlotsAvoidScheduled ==
    \A cell_key \in ReturnedSlots, k \in DOMAIN appointments :
        ~OverlapsScheduled(cell_key, k)

\* every flagged BETWEEN segment of the date overlaps one of the appointment
\* ranges the engine builds for the date
BetweenFlagsOverlap(r, date_str) ==
    \A seg \in BetweenOnDate(r, date_str) :
        FlagKey(seg) \in r.conflicting_segments =>
            \E rng \in ApptRanges(r, date_str) : seg[2] < rng[2] /\ seg[3] > rng[1]

\* C13: a BETWEEN segment is never flagged because of the working window: in
\* the state a click leaves after its recalculation (and conflict check) and
\* in the state a change of the window leaves after its recalculation, a
\* BETWEEN segment is in conflicting_segments only if it overlaps an
\* appointment of its date, even when it ends after the window end.
C13_BetweenNeverWindowFlagged ==
    \A date_str \in Range(selected_dates) :
        /\ \A c \in ClickCells, answer \in BOOLEAN :
              LET r == on_cell_click(self, c[1], c[2], answer)
              IN  (~r.exc /\ r.branch \in {"staged", "remove_pending", "remove_confirmed"})
                      => BetweenFlagsOverlap(r, date_str)
        /\ \A new_end \in GridEndHours, order \in DateOrders :
              LET r == on_time_config_changed(self, start_hour, new_end, order)
              IN  r.branch = "updated" => BetweenFlagsOverlap(r, date_str)

\* the state of the speculative recalculation for the slot at cell_key
Speculated(cell_key) ==
    recalculate_travel_times(
        [self EXCEPT !.appointments =
            DictSet(self.appointments, cell_key, postcode_var(self))],
        cell_key[1])

\* the recalculated date has no conflict of either kind: no segment overlaps
\* an appointment and no depot leg leaves the working window
NoConflictOfEitherKind(r, date_str) ==
    /\ TravelConflicts(r, date_str) = {}
    /\ \A seg \in FromDepotSegments(r, date_str) : seg[2] >= r.start_hour * 60
    /\ \A seg \in ToDepotSegments(r, date_str) : seg[3] <= r.end_hour * 60

\* C16: get_available_slots returns a slot only if the speculative
\* recalculation yields no conflict of either kind: no travel segment
\* overlapping an appointment, no FROM_DEPOT leg starting before the
\* working-window start, no TO_DEPOT leg ending after the working-window end.
C16_SlotsWithoutAnyConflict ==
    \A cell_key \in ReturnedSlots :
        NoConflictOfEitherKind(Speculated(cell_key), cell_key[1])

\* how often the postcode occurs in a list of postcodes
TimesIn(seq, postcode) == Cardinality({i \in DOMAIN seq : seq[i] = postcode})

\* the call r counted the postcode as created: its row was unsynced before
\* and is marked in Outlook after
CountedCreated(r, postcode) ==
    \E i \in DOMAIN r.st.confirmed_appointments :
        /\ r.st.confirmed_appointments[i].postcode = postcode
        /\ r.st.confirmed_appointments[i].in_outlook

\* the call r lists the postcode in its failure list
ListedFailed(r, postcode) ==
    \E j \in DOMAIN r.failed : r.failed[j].text = postcode

\* every appointment of to_sync was taken up exactly once and is either
\* counted as created or listed as failed, never both and never neither
BatchComplete(r, to_sync) ==
    /\ Len(r.attempted) = Len(to_sync)
    /\ r.created_count + Len(r.failed) = Len(to_sync)
    /\ \A i \in DOMAIN to_sync :
          /\ TimesIn(r.attempted, to_sync[i].postcode) = 1
          /\ CountedCreated(r, to_sync[i].postcode)
                # ListedFailed(r, to_sync[i].postcode)
    /\ r.created_count
          = Cardinality({i \in DOMAIN to_sync : CountedCreated(r, to_sync[i].postcode)})

\* C19: in sync_to_outlook a failure for one appointment (a false result or
\* an exception of the calendar call) never aborts the batch: every
\* confirmed appointment that was unsynced at the start is attempted exactly
\* once and ends up either counted as created or in the failure list, never
\* both and never neither.
C19_SyncBatchComplete ==
    \A outcomes \in OutcomeMaps(self) :
        LET r == sync_to_outlook(self, TRUE, TRUE, outcomes)
        IN  r.st.branch = "synced" => BatchComplete(r, ToSync(self))

\* C19 witness: a sync has marked one of two confirmed appointments and left
\* the other, and a further sync in which the calendar call raises for the
\* remaining one lists it as failed
C19_Witness ==
    /\ Len(confirmed_appointments) = 2
    /\ Len(ToSync(self)) = 1
    /\ \E outcomes \in OutcomeMaps(self) :
          LET r == sync_to_outlook(self, TRUE, TRUE, outcomes)
          IN  /\ outcomes[ToSync(self)[1].postcode] = "raised"
              /\ r.st.branch = "synced"
              /\ r.created_count = 0
              /\ Len(r.failed) = 1

\* every cluster of the labelling has at least min_size members
AllAtLeastMinSize(l) == \A c \in Clusters : Size(l, c) >= min_size

\* the number of customer locations is at least n_clusters * min_size
EnoughLocations == Len(labels) >= n_clusters * min_size

\* C20: whenever the number of customer locations is at least
\* n_clusters * min_size (min_size = 3), every cluster of the labels
\* balance_clusters returns has at least min_size members, and no step of the
\* overlap pass or of the compactness pass takes a cluster that has min_size
\* members below min_size.
C20_MinimumClusterSize ==
    [][/\ (pass' = "returned" /\ EnoughLocations) => AllAtLeastMinSize(labels')
       /\ pass \in {"overlap", "compact"} =>
            \A c \in Clusters :
                Size(labels, c) >= min_size => Size(labels', c) >= min_size]_vars

\* C20 witness: with enough locations the labels are returned after the last
\* round of the compactness pass moved a location, and a cluster is left
\* with exactly min_size members
C20_Witness ==
    /\ pass = "returned"
    /\ improved
    /\ EnoughLocations
    /\ AllAtLeastMinSize(labels)
    /\ \E c \in Clusters : Size(labels, c) = min_size

\* the rows of the stored results for the locations other than the depot
CustomerRows ==
    {row \in clustered_results : row.postcode # depot_postcode_var}

\* C21: in the results run_clustering stores, every location other than the
\* depot has exactly one row and its region is a territory number in
\* 1..n_clusters, every number in 1..n_clusters is the region of at least one
\* location, and region 0 is carried by the depot's row and by no other.
C21_PartitionComplete ==
    pass = "stored" =>
        /\ \A pc \in (1..(Len(labels) + 1)) \ {depot_postcode_var} :
              Cardinality({row \in clustered_results : row.postcode = pc}) = 1
        /\ {row.region : row \in CustomerRows} = 1..n_clusters
        /\ {row \in clustered_results : row.region = 0}
              = {[postcode |-> depot_postcode_var, region |-> 0]}

\* C21 witness: results are stored for three territories, the depot sorts
\* before the customers, and one territory has a single location
C21_Witness ==
    /\ pass = "stored"
    /\ n_clusters = 3
    /\ depot_postcode_var = 1
    /\ \E row \in CustomerRows :
          \A other \in CustomerRows : other.region = row.region => other = row

\* C22: no step of the proximity enforcement of balance_clusters that takes
\* a location out of a cluster leaves that cluster with fewer than min_size
\* members.
C22_ProximityKeepsMinSize ==
    [][pass = "proximity" =>
         \A c \in Clusters :
             Size(labels', c) < Size(labels, c) => Size(labels', c) >= min_size]_vars

\* the locations whose labels differ
Moved(l1, l2) == {p \in DOMAIN l1 : l1[p] # l2[p]}

\* C23: a round of the overlap pass of balance_clusters that starts with
\* overlapping hulls leaves labels that differ from the labels at its start
\* for at most one location: after one move the scan of the pairs stops.
C23_OneMovePerOverlapRound ==
    (pass = "overlap" /\ cluster_id = 0 /\ hulls_overlap) =>
        \A left \in OverlapRound(labels, 0) :
            Cardinality(Moved(labels, left)) <= 1

\* C24: when balance_clusters has returned, the hulls of the returned labels
\* do not overlap (check_convex_hulls_overlap is false on them) or the
\* warning that overlaps may remain was logged.
C24_NoSilentOverlap ==
    pass \in {"returned", "stored"} => (~hulls_overlap \/ warned)

\* l with one more location labelled with the region
WithLocation(l, customer_idx, region_num) ==
    [l EXCEPT ![customer_idx] = region_num - 1]

\* C25: with the depot, the service time and the working hours fixed, the
\* minimum-days estimate of a territory to which a location is added is at
\* least the estimate of the territory before, for every driving-time
\* matrix. (Stated for service times that are not negative and a depot that
\* sorts after the customers, where the estimate reads the territory's own
\* driving times.)
C25_MinimumDaysMonotone ==
    (/\ pass = "stored"
     /\ driving_time_matrix # None
     /\ service_time_var >= 0
     /\ depot_postcode_var = Len(labels) + 1) =>
        \A region_num \in 1..n_clusters, customer_idx \in DOMAIN labels :
            labels[customer_idx] # region_num - 1 =>
                MinimumDays(WithLocation(labels, customer_idx, region_num), region_num)
                    >= MinimumDays(labels, region_num)

\* C26: calculate_minimum_days_for_region returns at least 1 for every
\* region and every input.
C26_MinimumDaysAtLeastOne ==
    (pass = "stored" /\ driving_time_matrix # None) =>
        \A region_num \in 1..n_clusters :
            calculate_minimum_days_for_region(region_num) >= 1

\* the places in the driving time matrix of the postcodes of a territory
TerritoryIndices(region_num) ==
    {CustomerPostcodes(depot_postcode_var, Len(labels))[customer_idx] :
        customer_idx \in Members(labels, region_num - 1)}

\* C27: after run_clustering the minimum-days estimate of a territory reads
\* the driving times of the territory's own locations, wherever the depot
\* sorts among the postcodes: the nearest depot leg is the least driving
\* time between the depot and a member, and the pairs averaged are pairs of
\* members.
C27_EstimateReadsOwnTimes ==
    (pass = "stored" /\ driving_time_matrix # None) =>
        \A region_num \in 1..n_clusters :
            /\ MinDepotDistance(MatrixIndices(labels, region_num))
                 = MinDepotDistance(TerritoryIndices(region_num))
            /\ FinitePairs(MatrixIndices(labels, region_num))
                 = FinitePairs(TerritoryIndices(region_num))

\* the loop counters stay below their caps
WithinCaps ==
    /\ pass = "proximity" => iteration < MaxProximityIterations
    /\ pass = "overlap" => iteration < MaxOverlapIterations
    /\ pass = "compact" => iteration < MaxCompactnessIterations

\* C28: balance_clusters terminates and returns its labels: the proximity
\* enforcement, the overlap pass and the compactness pass stay within their
\* caps of passes, and the loop that fills a cluster stops when the cluster
\* has min_size members or the largest cluster has no more than min_size.
C28_BalanceTerminates ==
    /\ []WithinCaps
    /\ [][(pass = "min_size" /\ cluster_id' # cluster_id) =>
            (~MinSizeShort(labels, cluster_id)
                \/ Size(labels, LargestCluster(labels)) <= min_size)]_vars
    /\ <>(pass = "stored")

\* C28 witness: balance_clusters has returned after the overlap pass ran
\* into its cap, with a cluster that the minimum-size loop could not fill
C28_Witness ==
    /\ pass = "stored"
    /\ warned
    /\ hulls_overlap
    /\ \E c \in Clusters : Size(labels, c) < min_size

\* the cell keys of the date's appointments
DateKeys(s, date_str) == {k \in DOMAIN s.appointments : k[1] = date_str}

\* the date's appointments in start-time order
ByStart(s, date_str) ==
    CHOOSE order \in [1..Cardinality(DateKeys(s, date_str)) -> DateKeys(s, date_str)] :
        \A i, j \in DOMAIN order :
            i < j => time_to_minutes(order[i][2]) < time_to_minutes(order[j][2])

\* the date's segments of r, in list order
SegmentsOn(r, date_str) ==
    SelectSeq(r.travel_segments, LAMBDA seg : seg[1] = date_str)

\* the segments of the other dates, in list order
SegmentsOff(r, date_str) ==
    SelectSeq(r.travel_segments, LAMBDA seg : seg[1] # date_str)

\* r holds, for the date, the n + 1 segments of the appointments of s: one
\* FROM_DEPOT ending at the earliest start, one BETWEEN per consecutive pair
\* from the previous appointment's end for the travel time of the pair, one
\* TO_DEPOT from the last appointment's end; the other dates are as in s
DayRecalculated(r, s, date_str) ==
    LET order == ByStart(s, date_str)
        n == Len(order)
        segs == SegmentsOn(r, date_str)
        end_minutes(i) == time_to_minutes(order[i][2]) + OwnDuration(s, order[i])
        from_depot == {i \in DOMAIN segs : segs[i][4].from_home}
        to_depot == {i \in DOMAIN segs : segs[i][4].to_home}
        between == (DOMAIN segs) \ (from_depot \cup to_depot)
    IN  /\ Len(segs) = n + 1
        /\ Cardinality(from_depot) = 1
        /\ \A i \in from_depot : segs[i][3] = time_to_minutes(order[1][2])
        /\ Cardinality(between) = n - 1
        /\ \A j \in 1..(n - 1) :
              \E i \in between :
                  /\ segs[i][2] = end_minutes(j)
                  /\ segs[i][3] - segs[i][2]
                       = get_travel_time(s.appointments[order[j]],
                                         s.appointments[order[j + 1]])
        /\ Cardinality(to_depot) = 1
        /\ \A i \in to_depot : segs[i][2] = end_minutes(n)
        /\ SegmentsOff(r, date_str) = SegmentsOff(s, date_str)

\* C29: for a date with n >= 1 appointments and the depot configured,
\* recalculate_travel_times yields exactly n + 1 segments for the date: one
\* FROM_DEPOT ending at the earliest appointment's start, one BETWEEN per
\* consecutive pair in start-time order beginning at the previous
\* appointment's start plus its duration and lasting the travel time of the
\* pair, and one TO_DEPOT beginning at the last appointment's end; the
\* segments of the other dates are unchanged.
C29_RecalculationSegments ==
    \A date_str \in Range(selected_dates) :
        (home_postcode # "" /\ DateKeys(self, date_str) # {}) =>
            DayRecalculated(recalculate_travel_times(self, date_str), self, date_str)

\* the dates a click on the cell of date_str works on: the date of the cell
\* and the date of a pending appointment the click may move or drop
TouchedDates(s, date_str) ==
    {date_str} \cup (IF s.pending_appointment # None
                     THEN {s.pending_appointment[1]} ELSE {})

\* the click that left r staged or removed an appointment
StagedOrRemoved(r) ==
    ~r.exc /\ r.branch \in {"staged", "remove_pending", "remove_confirmed"}

\* C30: staging or removing an appointment on one date leaves the conflict
\* flags of every other date unchanged: a segment of another date that was
\* flagged before the click is still flagged after it.
C30_OtherDatesKeepFlags ==
    \A c \in ClickCells, answer \in BOOLEAN :
        LET r == on_cell_click(self, c[1], c[2], answer)
        IN  StagedOrRemoved(r) =>
              \A seg \in conflicting_segments :
                  seg[1] \notin TouchedDates(self, c[1]) =>
                      seg \in r.conflicting_segments

\* the fields of the object in r are those of s
SameState(r, s) ==
    /\ r.appointments = s.appointments
    /\ r.pending_appointment = s.pending_appointment
    /\ r.confirmed_appointments = s.confirmed_appointments
    /\ r.travel_segments = s.travel_segments
    /\ r.conflicting_segments = s.conflicting_segments
    /\ r.csv = s.csv
    /\ r.time_slots = s.time_slots
    /\ r.timetable_cells = s.timetable_cells

\* C31: a click on an empty cell for a location that already has a
\* confirmed appointment is rejected without any state change: an
\* appointment that was pending before the click is still pending after it,
\* with its timetable entry and its travel segments.
C31_DuplicateRejectedUnchanged ==
    \A c \in ClickCells, answer \in BOOLEAN :
        LET r == on_cell_click(self, c[1], c[2], answer)
        IN  r.branch = "duplicate" => SameState(r, self)

\* the rows after the sync are marked exactly where the row was marked before
\* or the calendar call of its postcode created the event
MarkedIffCreated(after, before, outcomes) ==
    /\ Len(after) = Len(before)
    /\ \A i \in DOMAIN after :
          after[i].in_outlook <=>
              \/ before[i].in_outlook
              \/ /\ before[i].postcode \in DOMAIN outcomes
                 /\ outcomes[before[i].postcode] = "created"

\* C32: after sync_to_outlook an appointment is marked in_outlook in memory
\* and in confirmed_appointments.csv if and only if its Outlook event was
\* created in this batch or it was marked before; an appointment whose
\* calendar call failed, by a false result or by an exception, stays
\* unmarked in both places.
C32_SyncedIffCreated ==
    \A response \in BOOLEAN, connected \in BOOLEAN, outcomes \in OutcomeMaps(self) :
        LET r == sync_to_outlook(self, response, connected, outcomes).st
        IN  r.branch = "synced" =>
              /\ MarkedIffCreated(r.confirmed_appointments, confirmed_appointments, outcomes)
              /\ MarkedIffCreated(r.csv, csv, outcomes)

\* the timetable of r holds the confirmed appointments of s and its pending
\* appointment, and nothing else
RebuiltFrom(r, s) ==
    /\ \A i \in DOMAIN s.confirmed_appointments :
          <<s.confirmed_appointments[i].date, s.confirmed_appointments[i].time>>
              \in DOMAIN r.appointments
    /\ s.pending_appointment # None =>
          /\ <<s.pending_appointment[1], s.pending_appointment[2]>> \in DOMAIN r.appointments
          /\ r.appointments[<<s.pending_appointment[1], s.pending_appointment[2]>>]
               = s.pending_appointment[3]
    /\ \A k \in DOMAIN r.appointments :
          \/ \E i \in DOMAIN s.confirmed_appointments :
                /\ k = <<s.confirmed_appointments[i].date, s.confirmed_appointments[i].time>>
                /\ r.appointments[k] = s.confirmed_appointments[i].postcode
          \/ /\ s.pending_appointment # None
             /\ k = <<s.pending_appointment[1], s.pending_appointment[2]>>

\* every date of r that has appointments has the segments of a
\* recalculation: one more than it has appointments
EveryDateRecomputed(r) ==
    \A date_str \in {k[1] : k \in DOMAIN r.appointments} :
        Len(SegmentsOn(r, date_str)) = Cardinality(DateKeys(r, date_str)) + 1

\* C33: after a valid working-window change (start < end) the timetable
\* entries are rebuilt from all confirmed appointments plus the pending one,
\* and the travel segments are recomputed for every date that has
\* appointments, also when an appointment starts outside the new window.
C33_WindowChangeRebuilds ==
    \A new_start \in StartHours, new_end \in EndHours, order \in DateOrders :
        new_start < new_end =>
            LET r == on_time_config_changed(self, new_start, new_end, order)
            IN  RebuiltFrom(r, self) /\ EveryDateRecomputed(r)

\* load_confirmed_appointments, lines 1719-1729: the dict built from the rows
\* of the file, a later row of a postcode replacing an earlier one in place
load_confirmed_appointments(rows) ==
    LET first == {i \in DOMAIN rows :
                    \A j \in DOMAIN rows : rows[j].postcode = rows[i].postcode => i <= j}
        last(i) == CHOOSE j \in DOMAIN rows :
                      /\ rows[j].postcode = rows[i].postcode
                      /\ \A k \in DOMAIN rows : rows[k].postcode = rows[i].postcode => k <= j
        kept == SelectSeq([i \in DOMAIN rows |-> i], LAMBDA i : i \in first)
    IN  [n \in DOMAIN kept |-> rows[last(kept[n])]]

\* the columns postcode, date, time, duration of the rows
Appointments4(rows) ==
    [i \in DOMAIN rows |->
        [postcode |-> rows[i].postcode, date |-> rows[i].date,
         time |-> rows[i].time, duration |-> rows[i].duration]]

\* the file of r holds the confirmed appointments of r, and loading it gives
\* them back
FileMatchesMemory(r) ==
    /\ Appointments4(r.csv) = Appointments4(r.confirmed_appointments)
    /\ Appointments4(load_confirmed_appointments(r.csv))
         = Appointments4(r.confirmed_appointments)

\* C34: after any sequence of submit, confirmed-removal and clear_schedule
\* operations the rows (postcode, date, time, duration) of
\* confirmed_appointments.csv are exactly the confirmed appointments in
\* memory, so that load_confirmed_appointments reproduces the confirmed set.
C34_CsvMatchesConfirmed == FileMatchesMemory(self)

\* C34 witness: two appointments are confirmed and in the file, and the
\* confirmed removal of one of them leaves the other one in both
C34_Witness ==
    /\ Len(csv) = 2
    /\ \E c \in ClickCells :
          LET r == on_cell_click(self, c[1], c[2], TRUE)
          IN  /\ r.branch = "remove_confirmed"
              /\ Len(r.csv) = 1
              /\ FileMatchesMemory(r)

\* the postcode names a location of the selected region of s
InSelectedRegion(s, postcode) ==
    \E i \in DOMAIN s.region_postcodes :
        Location(s.region_postcodes[i]) = Location(postcode)

\* the rows of locations outside the selected region of s
RowsOutside(s, rows) ==
    SelectSeq(rows, LAMBDA row : ~InSelectedRegion(s, row.postcode))

\* r holds the appointments of s without those of the selected region of s
RegionCleared(r, s) ==
    /\ r.confirmed_appointments = RowsOutside(s, s.confirmed_appointments)
    /\ r.csv = RowsOutside(s, s.csv)
    /\ r.pending_appointment =
          IF s.pending_appointment # None
                /\ InSelectedRegion(s, s.pending_appointment[3])
          THEN None ELSE s.pending_appointment
    /\ r.appointments =
          [k \in {c \in DOMAIN s.appointments :
                     ~InSelectedRegion(s, s.appointments[c])} |-> s.appointments[k]]

\* C35: clear_schedule, once confirmed, removes exactly the confirmed and
\* pending appointments whose location belongs to the selected region; the
\* confirmed appointments and a pending appointment of locations outside
\* the region are unchanged in memory, in the timetable entries and in the
\* file.
C35_ClearRemovesRegionOnly ==
    LET r == clear_schedule(self, TRUE)
    IN  r.branch = "cleared" => RegionCleared(r, self)

\* C36: after any sequence of manual reassignments in the edit-regions
\* dialog every location other than the depot has exactly one region,
\* a territory number in 1..n_clusters or -1 for excluded, the depot keeps
\* region 0, and the label of every location agrees with its row: the
\* region minus one, or -1 when excluded.
C36_EditsKeepAssignment ==
    /\ \A pc \in (1..(Len(labels) + 1)) \ {depot_postcode_var} :
          /\ Cardinality({row \in clustered_results : row.postcode = pc}) = 1
          /\ \A row \in clustered_results :
                row.postcode = pc => row.region \in (1..n_clusters) \cup {-1}
    /\ {row \in clustered_results : row.postcode = depot_postcode_var}
          = {[postcode |-> depot_postcode_var, region |-> 0]}
    /\ \A customer_idx \in DOMAIN labels :
          \A row \in clustered_results :
              row.postcode = CustomerPostcodes(depot_postcode_var, Len(labels))[customer_idx]
                  => labels[customer_idx]
                       = IF row.region = -1 THEN -1 ELSE row.region - 1

\* C36 witness: after edits one location is excluded, one is in a created
\* territory and one has been moved into the other original territory,
\* which has left territory 1 empty
C36_Witness ==
    /\ n_clusters = 3
    /\ \E row \in clustered_results : row.region = -1
    /\ \E row \in clustered_results : row.region = 3
    /\ \A row \in clustered_results : row.region # 1
    /\ \E customer_idx \in DOMAIN labels : labels[customer_idx] = 1

\* C37: whenever export_to_outlook creates an appointment, the assignments
\* in memory are non-empty and are what region_schedule.csv holds since the
\* last save or load, and every appointment created is a row of that file.
C37_ExportSendsSavedSchedule ==
    \A outlook_available \in BOOLEAN, failed \in SUBSET CalendarDates :
        LET c == export_to_outlook(calendar, outlook_available, failed)
        IN  c.outlook_created # {}
            => /\ DOMAIN region_assignments # {}
               /\ region_schedule_csv # None
               /\ region_assignments = read_csv(region_schedule_csv)
               /\ c.outlook_created \subseteq Range(region_schedule_csv)

\* an export has created one appointment for every row of a saved schedule
\* of two dates
C37_Witness ==
    /\ region_schedule_csv # None
    /\ outlook_created = Range(region_schedule_csv)
    /\ Cardinality(outlook_created) >= 2
    /\ schedule_saved

\* C38: set_show_names(v) makes a following get_show_names() return v and
\* calls every registered callback once per registration with v, in
\* registration order, whichever callbacks raise and whether or not the
\* preference file can be written.
C38_SetNotifiesEveryCallback ==
    \A show_names \in BOOLEAN, writable \in BOOLEAN,
       outcomes \in [DOMAIN preference_callbacks -> {"returns", "raises"}] :
        LET m == set_show_names(prefs, show_names, writable, outcomes)
        IN  /\ get_show_names(m).value = show_names
            /\ m.invoked = [i \in DOMAIN preference_callbacks |->
                               <<preference_callbacks[i], show_names>>]

\* a set has run with the file unwritable and every one of at least two
\* callbacks raising, and each callback was still called
C38_Witness ==
    /\ Len(invoked) >= 2
    /\ Len(invoked) = Len(preference_callbacks)
    /\ Len(printed) = Len(invoked) + 1
    /\ printed[1] = "Could not save display preference"
    /\ display_preference = <<invoked[1][2]>>

====
